---- MODULE Spec2Model ----
(***************************************************************************)
(* Model of rubin: the evaluation core (src/src/rubin/evaluator.py: the    *)
(* Range primitive, evaluate, audition and style persistence), the feature *)
(* extractor (src/src/rubin/analyzer.py) and the snapshot tools of the     *)
(* server (src/src/rubin/server.py).                                       *)
(*                                                                         *)
(* Numbers.  Every measured quantity and every Range bound is an integer   *)
(* counting tenths of the source's unit (3 stands for 0.3, 200 for 20.0),  *)
(* so the source's literals 0.1, 0.3, 1.0 and 20 are the integers 1, 3,    *)
(* 10 and 200.  Quotients (scores, proportions) are exact rationals        *)
(* [n, d] in lowest terms; round(x, k) yields an integer counting          *)
(* 10^-k units (1000 stands for the score 100.0).                          *)
(*                                                                         *)
(* Each operation has a specification of its own (SpecRange, SpecEvaluate, *)
(* SpecAudition, SpecAnalyze, SpecDegenerate, SpecConcurrent, SpecStore,   *)
(* SpecSnapshots, SpecRmsMean); the variables an operation does not use    *)
(* hold Unused.                                                            *)
(***************************************************************************)
EXTENDS Integers, Sequences, FiniteSets, TLC

VARIABLES
    range,            \* Range under test (Range.contains / Range.deviation)
    value,            \* value handed to contains / deviation
    containsResult,   \* what r.contains(value) returned, or NotCalled
    deviationResult,  \* what r.deviation(value) returned, or NotCalled
    analysis,         \* AudioAnalysis argument of evaluate / audition
    profile,          \* StyleProfile argument of evaluate / audition
    role,             \* role argument of audition (NoRole for None)
    evaluation,       \* EvaluationResult returned by evaluate, or NotCalled
    auditionResult,   \* AuditionResult returned by audition, or NotCalled
    audio,            \* sample buffer handed to analyze
    rmsFrames,        \* rms: the frame RMS values librosa yields for the buffer
    spectrogram,      \* S = |stft(mono)|: one row of frame magnitudes per bin
    freqs,            \* frequency of each bin of the spectrogram, in Hz
    interval,         \* the lo, hi arguments of a direct _band_energy call
    bandEnergyResult, \* what _band_energy(S, freqs, lo, hi) returned, or NotCalled
    analyzeResult,    \* what analyze(audio) returned, or NotCalled
    styleFiles,       \* the *.json files of STYLES_DIR and USER_STYLES_DIR, by stem
    styleResult,      \* the latest call on the style store and its outcome
    _snapshots,       \* server.py's _snapshots: snapshot name -> analysis
    toolResult,       \* the latest snapshot tool call and its outcome
    capturedNames,    \* history: the names capture_snapshot has stored so far
    frames            \* the frame of each caller's evaluate / audition call

coreVars == <<range, value, containsResult, deviationResult, analysis, profile,
              role, evaluation, auditionResult>>
analyzerVars == <<audio, rmsFrames, spectrogram, freqs, interval, bandEnergyResult,
                  analyzeResult>>
storeVars == <<styleFiles, styleResult>>
snapshotVars == <<_snapshots, toolResult, capturedNames>>

vars == <<coreVars, analyzerVars, storeVars, snapshotVars, frames>>

NotCalled == [called |-> FALSE]
Returned(x) == [called |-> TRUE, ret |-> x]
Unused == [unused |-> TRUE]

\* The variables an operation does not use.
RangeUnused ==
    /\ range = Unused /\ value = Unused
    /\ containsResult = Unused /\ deviationResult = Unused
AnalyzerUnused ==
    /\ audio = Unused /\ rmsFrames = Unused /\ spectrogram = Unused /\ freqs = Unused
    /\ interval = Unused /\ bandEnergyResult = Unused /\ analyzeResult = Unused
StoreUnused == styleFiles = Unused /\ styleResult = Unused
SnapshotsUnused ==
    _snapshots = Unused /\ toolResult = Unused /\ capturedNames = Unused
ShellUnused == AnalyzerUnused /\ StoreUnused /\ SnapshotsUnused /\ frames = Unused

----------------------------------------------------------------------------
(* Exact rational arithmetic standing for Python's float arithmetic.       *)

Abs(i) == IF i < 0 THEN -i ELSE i

RECURSIVE Gcd(_, _)
Gcd(a, b) == IF b = 0 THEN a ELSE Gcd(b, a % b)

Rat(n, d) ==
    LET g == Gcd(Abs(n), Abs(d))
        s == IF d < 0 THEN -1 ELSE 1
    IN  [n |-> (s * n) \div g, d |-> (s * d) \div g]

R(i) == [n |-> i, d |-> 1]
RatAdd(a, b) == Rat(a.n * b.d + b.n * a.d, a.d * b.d)
RatSub(a, b) == Rat(a.n * b.d - b.n * a.d, a.d * b.d)
RatMul(a, b) == Rat(a.n * b.n, a.d * b.d)
RatDiv(a, b) == Rat(a.n * b.d, a.d * b.n)
RatLt(a, b) == a.n * b.d < b.n * a.d
RatLe(a, b) == a.n * b.d <= b.n * a.d
RatMax(a, b) == IF RatLt(a, b) THEN b ELSE a
RatMin(a, b) == IF RatLt(b, a) THEN b ELSE a

\* round(x): nearest integer, exact halves to the even neighbour.
RoundHalfEven(x) ==
    LET fl == (2 * x.n) \div (2 * x.d)
        twice == 2 * (x.n - fl * x.d)
    IN  IF twice < x.d THEN fl
        ELSE IF twice > x.d THEN fl + 1
        ELSE IF fl % 2 = 0 THEN fl ELSE fl + 1

\* round(x, 1), counted in tenths.
Round1(x) == RoundHalfEven(RatMul(x, R(10)))
\* round(x, 4), counted in ten-thousandths.
Round4(x) == RoundHalfEven(RatMul(x, R(10000)))

RECURSIVE RatSum(_)
RatSum(s) == IF s = <<>> THEN R(0) ELSE RatAdd(Head(s), RatSum(Tail(s)))

----------------------------------------------------------------------------
(* Range                                                                   *)

Range(low, high) == [low |-> low, high |-> high]

contains_strict(self, val) == self.low < val /\ val < self.high

contains(self, val) == self.low <= val /\ val <= self.high

deviation_below_only(self, val) ==
    IF val < self.low THEN self.low - val ELSE 0

deviation(self, val) ==
    IF val < self.low THEN self.low - val
    ELSE IF val > self.high THEN val - self.high
    ELSE 0

----------------------------------------------------------------------------
(* StyleProfile, Issue and the lookup tables                               *)

None == [none |-> TRUE]
NoBand == "<None>"

BandOrder ==
    <<"sub_bass", "bass", "low_mid", "mid", "upper_mid", "presence", "brilliance">>
Bands == {BandOrder[i] : i \in DOMAIN BandOrder}

StyleProfile(name, description, fb, dr, br, sw, rms) ==
    [name |-> name, description |-> description, frequency_balance |-> fb,
     dynamic_range_db |-> dr, brightness |-> br, stereo_width |-> sw,
     rms_mean |-> rms]

\* dict.get(key) with the default None
Get(dict, key) == IF key \in DOMAIN dict THEN dict[key] ELSE None

Issue(category, severity, band, message, suggestion) ==
    [category |-> category, severity |-> severity, band |-> band,
     message |-> message, suggestion |-> suggestion]

\* The f-string of an issue's message: its fixed text, the band it names ("" when
\* it names none) and the numbers it formats.
Message(text, band, args) == [text |-> text, band |-> band, args |-> args]

_categorize_excess(band) ==
    CASE band = "sub_bass" -> "rumble"
      [] band = "bass" -> "mud"
      [] band = "low_mid" -> "mud"
      [] band = "mid" -> "masking"
      [] band = "upper_mid" -> "harshness"
      [] band = "presence" -> "harshness"
      [] band = "brilliance" -> "sibilance"
      [] OTHER -> "excess"

_suggest_reduction(band) ==
    CASE band = "sub_bass" ->
           "Apply a high-pass filter around 30-40 Hz to tame sub-bass rumble."
      [] band = "bass" -> "Cut 2-3 dB in the 100-250 Hz range to reduce muddiness."
      [] band = "low_mid" -> "Dip the 250-500 Hz region to clear boxy buildup."
      [] band = "mid" ->
           "Scoop 1-2 dB around 500-2000 Hz to reduce masking between elements."
      [] band = "upper_mid" ->
           "Attenuate 2-4 kHz to reduce harshness and listening fatigue."
      [] band = "presence" ->
           "Tame 4-6 kHz with a gentle cut to soften presence-range aggression."
      [] band = "brilliance" ->
           "Roll off above 10 kHz or de-ess vocals to control sibilance."
      [] OTHER -> "Reduce energy in the " \o band \o " band."

_suggest_boost(band) ==
    CASE band = "sub_bass" ->
           "Boost sub-bass with a low shelf or saturator below 60 Hz."
      [] band = "bass" -> "Add warmth with a gentle boost around 80-150 Hz."
      [] band = "low_mid" ->
           "A small lift around 300-400 Hz can add body to thin mixes."
      [] band = "mid" ->
           "Boost midrange presence to help vocals and leads cut through."
      [] band = "upper_mid" -> "A lift around 2-4 kHz adds clarity and articulation."
      [] band = "presence" -> "Boost 4-6 kHz for more definition and attack."
      [] band = "brilliance" ->
           "Add a high shelf boost above 8 kHz for air and sparkle."
      [] OTHER -> "Boost energy in the " \o band \o " band."

----------------------------------------------------------------------------
(* evaluate                                                                *)

\* the literal 1.0 of the degenerate-range span, in tenths
SpanDefault == 10
\* the literal 0.1 of the degenerate stereo-width span, in tenths
WidthSpanDefault == 1

\* span = (target.high - target.low) / 2 if target.high > target.low else <default>
Span(target, default) ==
    IF target.high > target.low
    THEN Rat(target.high - target.low, 2)
    ELSE R(default)

Score_unclamped(dev, span) ==
    RatSub(R(100), RatMul(RatDiv(R(dev), span), R(50)))

Score_steep(dev, span) ==
    RatMax(R(0), RatSub(R(100), RatMul(RatDiv(R(dev), span), R(100))))

\* max(0.0, 100.0 - (dev / span) * 50)
Score(dev, span) ==
    RatMax(R(0), RatSub(R(100), RatMul(RatDiv(R(dev), span), R(50))))

Severity_nonstrict(dev, span) ==
    IF RatLe(RatMul(span, R(2)), R(dev)) THEN "high"
    ELSE IF RatLe(span, R(dev)) THEN "medium"
    ELSE "low"

Severity_by_width(dev, span) ==
    IF RatLt(RatMul(span, R(4)), R(dev)) THEN "high"
    ELSE IF RatLt(RatMul(span, R(2)), R(dev)) THEN "medium"
    ELSE "low"

\* "high" if dev > span * 2 else "medium" if dev > span else "low"
Severity(dev, span) ==
    IF RatLt(RatMul(span, R(2)), R(dev)) THEN "high"
    ELSE IF RatLt(span, R(dev)) THEN "medium"
    ELSE "low"

\* The body of the band loop for a band that has a target, applied to the
\* accumulators acc = [band_scores, score_components, issues].
TargetedBandStep(acc, band_name, actual, target) ==
    LET dev == deviation(target, actual)
        span == Span(target, SpanDefault)
        score == IF RatLt(R(0), span) THEN Score(dev, span) ELSE R(100)
        severity == Severity(dev, span)
        issue ==
          IF actual > target.high
          THEN <<Issue(_categorize_excess(band_name), severity, band_name,
                       Message("energy exceeds target range", band_name,
                               <<actual, target.low, target.high>>),
                       _suggest_reduction(band_name))>>
          ELSE IF actual < target.low
          THEN <<Issue("thin_" \o band_name, severity, band_name,
                       Message("energy below target range", band_name,
                               <<actual, target.low, target.high>>),
                       _suggest_boost(band_name))>>
          ELSE <<>>
    IN  [band_scores |-> (band_name :> Round1(score)) @@ acc.band_scores,
         score_components |-> Append(acc.score_components, score),
         issues |-> acc.issues \o issue]

BandStep_counts_untargeted(acc, band_name, actual, prof) ==
    LET target == Get(prof.frequency_balance, band_name) IN
    IF target = None
    THEN [acc EXCEPT !.band_scores = (band_name :> 1000) @@ @,
                     !.score_components = Append(@, R(100))]
    ELSE TargetedBandStep(acc, band_name, actual, target)

BandStep_skips_untargeted(acc, band_name, actual, prof) ==
    LET target == Get(prof.frequency_balance, band_name) IN
    IF target = None
    THEN acc
    ELSE TargetedBandStep(acc, band_name, actual, target)

\* One iteration of the band loop.
BandStep(acc, band_name, actual, prof) ==
    LET target == Get(prof.frequency_balance, band_name) IN
    IF target = None
    THEN [acc EXCEPT !.band_scores = (band_name :> 1000) @@ @]
    ELSE TargetedBandStep(acc, band_name, actual, target)

RECURSIVE BandLoop(_, _, _)
BandLoop(an, prof, i) ==
    IF i = 0
    THEN [band_scores |-> <<>>, score_components |-> <<>>, issues |-> <<>>]
    ELSE BandStep(BandLoop(an, prof, i - 1), BandOrder[i],
                  an.frequency_bands[BandOrder[i]], prof)

OverCompressed(dr, target, severity) ==
    Issue("over_compressed", severity, NoBand,
          Message("Dynamic range is below target", "",
                  <<dr, target.low, target.high>>),
          "Reduce compression ratio or raise threshold to restore dynamics.")

UnderCompressed(dr, target, severity) ==
    Issue("under_compressed", severity, NoBand,
          Message("Dynamic range exceeds target", "",
                  <<dr, target.low, target.high>>),
          "Apply gentle bus compression to tighten the dynamic range.")

DynamicRangeIssue_graded(dr, target) ==
    LET severity == Severity(deviation(target, dr), Span(target, SpanDefault)) IN
    IF dr < target.low THEN <<OverCompressed(dr, target, severity)>>
    ELSE IF dr > target.high THEN <<UnderCompressed(dr, target, severity)>>
    ELSE <<>>

\* The issue of an out-of-range dynamic range
DynamicRangeIssue(dr, target) ==
    IF dr < target.low THEN <<OverCompressed(dr, target, "medium")>>
    ELSE IF dr > target.high THEN <<UnderCompressed(dr, target, "low")>>
    ELSE <<>>

DynamicRangeStep(acc, an, prof) ==
    IF prof.dynamic_range_db = None THEN acc
    ELSE
      LET dr == an.loudness.dynamic_range_db
          target == prof.dynamic_range_db
      IN
      IF contains(target, dr)
      THEN [acc EXCEPT !.score_components = Append(@, R(100))]
      ELSE
        LET dev == deviation(target, dr)
            span == Span(target, SpanDefault)
            s == Score(dev, span)
        IN  [acc EXCEPT !.score_components = Append(@, s),
                        !.issues = @ \o DynamicRangeIssue(dr, target)]

BrightnessStep(acc, an, prof) ==
    IF prof.brightness = None THEN acc
    ELSE
      LET centroid == an.spectral.centroid_mean
          target == prof.brightness
      IN
      IF contains(target, centroid)
      THEN [acc EXCEPT !.score_components = Append(@, R(100))]
      ELSE
        LET dev == deviation(target, centroid)
            span == Span(target, SpanDefault)
            s == Score(dev, span)
            issue ==
              IF centroid > target.high
              THEN <<Issue("harshness", "medium", "upper_mid",
                           Message("Spectral centroid is above target", "", <<centroid>>),
                           "Roll off highs with a low-pass or shelf EQ above 8 kHz.")>>
              ELSE <<Issue("dullness", "medium", "presence",
                           Message("Spectral centroid is below target", "", <<centroid>>),
                           "Add a subtle high-shelf boost around 8-12 kHz for air.")>>
        IN  [acc EXCEPT !.score_components = Append(@, s),
                        !.issues = @ \o issue]

StereoWidthStep(acc, an, prof) ==
    IF prof.stereo_width = None THEN acc
    ELSE
      LET width == an.stereo.width
          target == prof.stereo_width
      IN
      IF contains(target, width)
      THEN [acc EXCEPT !.score_components = Append(@, R(100))]
      ELSE
        LET dev == deviation(target, width)
            span == Span(target, WidthSpanDefault)
            s == Score(dev, span)
            issue ==
              IF width > target.high
              THEN <<Issue("too_wide", "low", NoBand,
                           Message("Stereo width exceeds target", "", <<width>>),
                           "Narrow the stereo image on low-frequency elements; check mono compatibility.")>>
              ELSE <<Issue("too_narrow", "low", NoBand,
                           Message("Stereo width is below target", "", <<width>>),
                           "Use subtle stereo widening on pads/reverbs, or pan elements further apart.")>>
        IN  [acc EXCEPT !.score_components = Append(@, s),
                        !.issues = @ \o issue]

\* round(sum(score_components) / len(score_components), 1), else 100.0
CohesionScore(score_components) ==
    IF score_components # <<>>
    THEN Round1(RatDiv(RatSum(score_components), R(Len(score_components))))
    ELSE 1000

EvaluationResult_counts_rms_mean(prof, acc) ==
    [style |-> prof.name,
     cohesion_score |->
       CohesionScore(acc.score_components
                     \o (IF prof.rms_mean # None THEN <<R(100)>> ELSE <<>>)),
     issues |-> acc.issues,
     band_scores |-> acc.band_scores]

\* return EvaluationResult(style=..., cohesion_score=..., issues=..., band_scores=...)
EvaluationResult(prof, acc) ==
    [style |-> prof.name,
     cohesion_score |-> CohesionScore(acc.score_components),
     issues |-> acc.issues,
     band_scores |-> acc.band_scores]

evaluate(an, prof) ==
    EvaluationResult(prof,
      StereoWidthStep(
        BrightnessStep(
          DynamicRangeStep(BandLoop(an, prof, Len(BandOrder)), an, prof),
          an, prof),
        an, prof))

----------------------------------------------------------------------------
(* audition                                                                *)

NoRole == "<None>"
TRACK_ROLES == {"bass", "lead", "pad", "percussion", "texture"}

RECURSIVE SumBands(_, _)
SumBands(f, bs) ==
    IF bs = <<>> THEN 0 ELSE f[Head(bs)] + SumBands(f, Tail(bs))

\* sum(freq_profile.get(b, 0) for b in bs)
RECURSIVE SumProportions(_, _)
SumProportions(freq_profile, bs) ==
    IF bs = <<>> THEN R(0)
    ELSE RatAdd(freq_profile[Head(bs)], SumProportions(freq_profile, Tail(bs)))

FreqProfile_by_peak(band_map) ==
    LET peak == CHOOSE m \in {band_map[b] : b \in Bands} :
                  \A b \in Bands : band_map[b] <= m
    IN  IF peak > 0
        THEN [b \in Bands |-> Rat(band_map[b], peak)]
        ELSE [b \in Bands |-> R(0)]

\* {b: v / total_energy ...} if total_energy > 0 else {b: 0.0 ...}
FreqProfile(band_map) ==
    LET total_energy == SumBands(band_map, BandOrder) IN
    IF total_energy > 0
    THEN [b \in Bands |-> Rat(band_map[b], total_energy)]
    ELSE [b \in Bands |-> R(0)]

\* seq with band b placed after every band whose proportion is not smaller
\* (sorted(..., reverse=True) is stable: equal proportions keep band_map order)
InsertBand(seq, b, freq_profile) ==
    LET before == {j \in 1 .. Len(seq) :
                     \A i \in 1 .. j : ~RatLt(freq_profile[seq[i]], freq_profile[b])}
        n == Cardinality(before)
    IN  SubSeq(seq, 1, n) \o <<b>> \o SubSeq(seq, n + 1, Len(seq))

RECURSIVE SortedBands(_, _)
SortedBands(freq_profile, i) ==
    IF i = 0 THEN <<>>
    ELSE InsertBand(SortedBands(freq_profile, i - 1), BandOrder[i], freq_profile)

DominantThreshold_higher == Rat(8, 10)

\* 0.7 of the dominant-band loop
DominantThreshold == Rat(7, 10)

\* for band_name, proportion in sorted_bands[i:] ... break
RECURSIVE DominantLoop(_, _, _, _, _)
DominantLoop(sorted_bands, freq_profile, i, dominant, cumulative) ==
    IF i > Len(sorted_bands) THEN dominant
    ELSE
      LET proportion == freq_profile[sorted_bands[i]] IN
      IF RatLt(R(0), proportion)
      THEN IF RatLe(DominantThreshold, RatAdd(cumulative, proportion))
           THEN Append(dominant, sorted_bands[i])
           ELSE DominantLoop(sorted_bands, freq_profile, i + 1,
                             Append(dominant, sorted_bands[i]),
                             RatAdd(cumulative, proportion))
      ELSE DominantLoop(sorted_bands, freq_profile, i + 1, dominant, cumulative)

_classify_role_pad_first(an, freq_profile) ==
    LET low_energy == RatAdd(freq_profile["sub_bass"], freq_profile["bass"])
        high_energy == RatAdd(freq_profile["presence"], freq_profile["brilliance"])
        hi == CHOOSE b \in Bands :
                \A c \in Bands : RatLe(freq_profile[c], freq_profile[b])
        lo == CHOOSE b \in Bands :
                \A c \in Bands : RatLe(freq_profile[b], freq_profile[c])
        spread == RatSub(freq_profile[hi], freq_profile[lo])
    IN  IF an.loudness.dynamic_range_db > 200 /\ RatLt(Rat(1, 4), high_energy)
        THEN "percussion"
        ELSE IF an.spectral.flatness_mean > 3 THEN "texture"
        ELSE IF RatLt(spread, Rat(1, 5)) /\ an.stereo.width > 1 THEN "pad"
        ELSE IF RatLt(Rat(1, 2), low_energy) THEN "bass"
        ELSE "lead"

_classify_role_inclusive(an, freq_profile) ==
    LET low_energy == RatAdd(freq_profile["sub_bass"], freq_profile["bass"])
        high_energy == RatAdd(freq_profile["presence"], freq_profile["brilliance"])
        hi == CHOOSE b \in Bands :
                \A c \in Bands : RatLe(freq_profile[c], freq_profile[b])
        lo == CHOOSE b \in Bands :
                \A c \in Bands : RatLe(freq_profile[b], freq_profile[c])
        spread == RatSub(freq_profile[hi], freq_profile[lo])
    IN  IF an.loudness.dynamic_range_db >= 200 /\ RatLe(Rat(1, 4), high_energy)
        THEN "percussion"
        ELSE IF an.spectral.flatness_mean >= 3 THEN "texture"
        ELSE IF RatLe(Rat(1, 2), low_energy) THEN "bass"
        ELSE IF RatLe(spread, Rat(1, 5)) /\ an.stereo.width >= 1 THEN "pad"
        ELSE "lead"

_classify_role(an, freq_profile) ==
    LET low_energy == RatAdd(freq_profile["sub_bass"], freq_profile["bass"])
        mid_energy == RatAdd(freq_profile["mid"], freq_profile["upper_mid"])
        high_energy == RatAdd(freq_profile["presence"], freq_profile["brilliance"])
        hi == CHOOSE b \in Bands :
                \A c \in Bands : RatLe(freq_profile[c], freq_profile[b])
        lo == CHOOSE b \in Bands :
                \A c \in Bands : RatLe(freq_profile[b], freq_profile[c])
        spread == RatSub(freq_profile[hi], freq_profile[lo])
    IN  IF an.loudness.dynamic_range_db > 200 /\ RatLt(Rat(1, 4), high_energy)
        THEN "percussion"
        ELSE IF an.spectral.flatness_mean > 3 THEN "texture"
        ELSE IF RatLt(Rat(1, 2), low_energy) THEN "bass"
        ELSE IF RatLt(spread, Rat(1, 5)) /\ an.stereo.width > 1 THEN "pad"
        ELSE IF RatLt(Rat(3, 10), mid_energy) THEN "lead"
        ELSE "lead"

ResolveRole_validates(given_role, an, freq_profile) ==
    IF given_role \in TRACK_ROLES THEN given_role
    ELSE _classify_role(an, freq_profile)

\* if role is None: role = _classify_role(analysis, freq_profile)
ResolveRole(given_role, an, freq_profile) ==
    IF given_role = NoRole THEN _classify_role(an, freq_profile)
    ELSE given_role

_role_band_affinity(r) ==
    CASE r = "bass" ->
           [primary |-> <<"sub_bass", "bass">>,
            avoid |-> <<"upper_mid", "presence", "brilliance">>]
      [] r = "lead" ->
           [primary |-> <<"mid", "upper_mid", "presence">>, avoid |-> <<"sub_bass">>]
      [] r = "pad" -> [primary |-> <<"low_mid", "mid">>, avoid |-> <<>>]
      [] r = "percussion" ->
           [primary |-> <<"presence", "brilliance", "upper_mid">>,
            avoid |-> <<"sub_bass">>]
      [] r = "texture" ->
           [primary |-> <<"mid", "presence", "brilliance">>, avoid |-> <<>>]
      [] OTHER -> [primary |-> <<"mid">>, avoid |-> <<>>]

_role_conflict_suggestion(r, band) ==
    CASE r = "bass" /\ band = "upper_mid" ->
           "Apply a low-pass filter around 2-4 kHz to keep the bass focused in the low end."
      [] r = "bass" /\ band = "presence" ->
           "Roll off above 4 kHz - bass elements rarely need presence-range energy."
      [] r = "bass" /\ band = "brilliance" ->
           "Filter out high frequencies above 6 kHz to avoid interference with cymbals/hats."
      [] r = "lead" /\ band = "sub_bass" ->
           "High-pass the lead around 80-100 Hz to avoid competing with the bass."
      [] r = "percussion" /\ band = "sub_bass" ->
           "High-pass percussion above 60 Hz unless it's a kick drum."
      [] OTHER -> "Consider reducing " \o band \o " energy on this " \o r \o " element."

Conflicting_at_penalty_threshold(proportion) == RatLt(Rat(15, 100), proportion)

\* if freq_profile.get(b, 0) > 0.1
Conflicting(proportion) == RatLt(Rat(1, 10), proportion)

\* for b in avoid_bands: if freq_profile.get(b, 0) > 0.1: issues.append(...)
RECURSIVE RoleConflictIssues(_, _, _, _)
RoleConflictIssues(avoid_bands, freq_profile, r, prof) ==
    IF avoid_bands = <<>> THEN <<>>
    ELSE
      LET b == Head(avoid_bands)
          rest == RoleConflictIssues(Tail(avoid_bands), freq_profile, r, prof)
      IN  IF Conflicting(freq_profile[b])
          THEN <<Issue("role_conflict", "medium", b,
                       Message("This " \o r \o " element has significant energy, which may clash with other elements in a " \o prof.name \o " mix.",
                               b, <<RoundHalfEven(RatMul(freq_profile[b], R(100)))>>),
                       _role_conflict_suggestion(r, b))>> \o rest
          ELSE rest

Excessive_above_high(actual, target) == actual > target.high

\* if actual > target.high * 1.5
Excessive(actual, target) == RatLt(RatMul(R(target.high), Rat(3, 2)), R(actual))

\* for band_name in dominant: ... if actual > target.high * 1.5: issues.append(...)
RECURSIVE StyleFitIssues(_, _, _)
StyleFitIssues(dominant, band_map, prof) ==
    IF dominant = <<>> THEN <<>>
    ELSE
      LET band_name == Head(dominant)
          target == Get(prof.frequency_balance, band_name)
          rest == StyleFitIssues(Tail(dominant), band_map, prof)
      IN  IF target = None THEN rest
          ELSE IF Excessive(band_map[band_name], target)
          THEN <<Issue("excess_for_style", "low", band_name,
                       Message("energy is high relative to " \o prof.name \o " targets - this track may dominate that range.",
                               band_name,
                               <<band_map[band_name], target.low, target.high>>),
                       "Consider taming " \o band_name \o " on this track to leave room for other elements.")>>
               \o rest
          ELSE rest

\* sorted_bands and the dominant-band loop
DominantBands(freq_profile) ==
    DominantLoop(SortedBands(freq_profile, Len(BandOrder)), freq_profile, 1,
                 <<>>, R(0))

\* primary_score = min(100.0, primary_energy * 200)
PrimaryScore(primary_energy) == RatMin(R(100), RatMul(primary_energy, R(200)))

Penalised_inclusive(avoid_energy) == RatLe(Rat(15, 100), avoid_energy)

\* if avoid_energy > 0.15
Penalised(avoid_energy) == RatLt(Rat(15, 100), avoid_energy)

\* avoid_score = max(0.0, 100.0 - (avoid_energy - 0.15) * 400)
AvoidScore(avoid_energy) ==
    RatMax(R(0), RatSub(R(100), RatMul(RatSub(avoid_energy, Rat(15, 100)), R(400))))

FitComponents_without_empty_primary(primary_energy, avoid_energy) ==
    (IF RatLt(R(0), primary_energy) THEN <<PrimaryScore(primary_energy)>> ELSE <<>>)
    \o (IF Penalised(avoid_energy) THEN <<AvoidScore(avoid_energy)>> ELSE <<>>)

\* fit_components, after both fit_components.append(...) statements
FitComponents(primary_energy, avoid_energy) ==
    <<PrimaryScore(primary_energy)>>
    \o (IF Penalised(avoid_energy) THEN <<AvoidScore(avoid_energy)>> ELSE <<>>)

\* round(sum(fit_components) / len(fit_components) if fit_components else 100.0, 1)
FitScore(fit_components) ==
    Round1(IF fit_components # <<>>
           THEN RatDiv(RatSum(fit_components), R(Len(fit_components)))
           ELSE R(100))

\* The fit score, the issues and the returned AuditionResult, from the
\* frequency profile, the dominant bands and the resolved role r.
AuditionResult(an, prof, freq_profile, dominant, r) ==
    LET band_map == an.frequency_bands
        role_bands == _role_band_affinity(r)
        primary_energy == SumProportions(freq_profile, role_bands.primary)
        avoid_energy == SumProportions(freq_profile, role_bands.avoid)
        issues ==
          (IF Penalised(avoid_energy)
           THEN RoleConflictIssues(role_bands.avoid, freq_profile, r, prof)
           ELSE <<>>)
          \o StyleFitIssues(dominant, band_map, prof)
    IN  [style |-> prof.name,
         role |-> r,
         fit_score |-> FitScore(FitComponents(primary_energy, avoid_energy)),
         dominant_bands |-> dominant,
         frequency_profile |-> [b \in Bands |-> Round4(freq_profile[b])],
         issues |-> issues]

audition(an, prof, given_role) ==
    LET freq_profile == FreqProfile(an.frequency_bands) IN
    AuditionResult(an, prof, freq_profile, DominantBands(freq_profile),
                   ResolveRole(given_role, an, freq_profile))

----------------------------------------------------------------------------
(* Inputs of evaluate                                                      *)

MaxValue == 4
FarValue == 30

MeasuredValues == (0 .. MaxValue) \cup {FarValue}

\* Target ranges: even width (one span is a whole number of units on either
\* side of the second), odd width, degenerate, inverted.
TargetRanges == {Range(2, 4), Range(1, 3), Range(1, 4), Range(3, 3), Range(4, 2)}
\* The maximally wide range of tests/test_evaluator.py
WideRange == Range(0, FarValue)

ScalarKeys == {"dynamic_range_db", "brightness", "stereo_width"}
Keys == Bands \cup ScalarKeys

AudioAnalysis(bands, dr, centroid, flatness, width) ==
    [frequency_bands |-> bands,
     loudness |-> [dynamic_range_db |-> dr],
     spectral |-> [centroid_mean |-> centroid, flatness_mean |-> flatness],
     stereo |-> [width |-> width]]

\* The analysis whose metric k measures vals[k] when k is in DOMAIN vals,
\* else base.
AnalysisOf(vals, base) ==
    LET at(k) == IF k \in DOMAIN vals THEN vals[k] ELSE base IN
    AudioAnalysis([b \in Bands |-> at(b)], at("dynamic_range_db"),
                  at("brightness"), base, at("stereo_width"))

\* The profile that targets metric k with tgts[k] when k is in DOMAIN tgts,
\* and every other metric with rest (None: not at all).
ProfileOf(tgts, rest) ==
    LET at(k) == IF k \in DOMAIN tgts THEN tgts[k] ELSE rest IN
    StyleProfile("test", "test",
                 [b \in {k \in Bands : at(k) # None} |-> at(b)],
                 at("dynamic_range_db"), at("brightness"), at("stereo_width"),
                 None)

RestModes == {[target |-> None, base |-> 0], [target |-> None, base |-> FarValue],
              [target |-> WideRange, base |-> 0]}

\* The metrics whose target and measurement vary freely: none, one or a pair.
FocusSets == {{}} \cup {{k1, k2} : k1, k2 \in Keys}

InitEvaluate ==
    /\ \E S \in FocusSets :
       \E tgts \in [S -> TargetRanges], vals \in [S -> MeasuredValues],
          rest \in RestModes :
          /\ analysis = AnalysisOf(vals, rest.base)
          /\ profile = ProfileOf(tgts, rest.target)
    /\ evaluation = NotCalled
    /\ role = Unused /\ auditionResult = Unused
    /\ RangeUnused /\ ShellUnused

CallEvaluate ==
    /\ evaluation = NotCalled
    /\ evaluation' = Returned(evaluate(analysis, profile))
    /\ UNCHANGED <<range, value, containsResult, deviationResult, analysis,
                   profile, role, auditionResult,
                   analyzerVars, storeVars, snapshotVars, frames>>

SpecEvaluate == InitEvaluate /\ [][CallEvaluate]_vars

----------------------------------------------------------------------------
(* Range.contains and Range.deviation on their own                         *)

RangeValues == (-1) .. MaxValue

InitRange ==
    /\ \E low, high \in RangeValues : range = Range(low, high)
    /\ value \in RangeValues
    /\ containsResult = NotCalled /\ deviationResult = NotCalled
    /\ analysis = Unused /\ profile = Unused /\ role = Unused
    /\ evaluation = Unused /\ auditionResult = Unused
    /\ ShellUnused

CallContains ==
    /\ ~containsResult.called
    /\ containsResult' = Returned(contains(range, value))
    /\ UNCHANGED <<range, value, deviationResult, analysis, profile, role,
                   evaluation, auditionResult,
                   analyzerVars, storeVars, snapshotVars, frames>>

CallDeviation ==
    /\ ~deviationResult.called
    /\ deviationResult' = Returned(deviation(range, value))
    /\ UNCHANGED <<range, value, containsResult, analysis, profile, role,
                   evaluation, auditionResult,
                   analyzerVars, storeVars, snapshotVars, frames>>

NextRange == CallContains \/ CallDeviation

SpecRange == InitRange /\ [][NextRange]_vars

----------------------------------------------------------------------------
(* Vocabulary of the properties                                            *)

\* The target a profile sets for metric k (None when it sets none) and the
\* value an analysis measures for it.
TargetOf(prof, k) ==
    IF k \in Bands THEN Get(prof.frequency_balance, k) ELSE prof[k]

MeasuredOf(an, k) ==
    CASE k \in Bands -> an.frequency_bands[k]
      [] k = "dynamic_range_db" -> an.loudness.dynamic_range_db
      [] k = "brightness" -> an.spectral.centroid_mean
      [] k = "stereo_width" -> an.stereo.width

Constrained(prof) == {k \in Keys : TargetOf(prof, k) # None}

InRange(t, x) == t.low <= x /\ x <= t.high
Below(t, x) == x < t.low
Above(t, x) == x > t.high

\* Twice the span of a target: high - low, or twice the default (1.0, and 0.1
\* for stereo width) when the range is degenerate or inverted.
TwiceSpan(t, k) ==
    IF t.high > t.low THEN t.high - t.low
    ELSE IF k = "stereo_width" THEN 2 ELSE 20

\* max(0, 100 - (dev/span)*50) of metric k
ComponentScore(an, prof, k) ==
    LET t == TargetOf(prof, k)
        dev == deviation(t, MeasuredOf(an, k))
        raw == Rat(100 * TwiceSpan(t, k) - 100 * dev, TwiceSpan(t, k))
    IN  IF raw.n < 0 THEN R(0) ELSE raw

RECURSIVE ComponentSum(_, _, _)
ComponentSum(an, prof, S) ==
    IF S = {} THEN R(0)
    ELSE LET k == CHOOSE x \in S : TRUE
         IN  RatAdd(ComponentScore(an, prof, k), ComponentSum(an, prof, S \ {k}))

\* tenths is a value of 1 decimal nearest to the rational x
NearestTenth(tenths, x) ==
    LET diff == RatSub(Rat(tenths, 10), x)
    IN  RatLe(Rat(-1, 20), diff) /\ RatLe(diff, Rat(1, 20))

\* The cohesion score is the 1-decimal mean of the constrained metrics' scores.
CohesionIsMeanOfConstrained(res, an, prof) ==
    LET C == Constrained(prof) IN
    IF C = {} THEN res.cohesion_score = 1000
    ELSE NearestTenth(res.cohesion_score,
                      RatDiv(ComponentSum(an, prof, C), R(Cardinality(C))))

\* The issues of the band loop about band b, and those of a scalar metric
BandIssues(res, b) == SelectSeq(res.issues, LAMBDA i : i.message.band = b)

ScalarTexts(k) ==
    CASE k = "dynamic_range_db" ->
           {"Dynamic range is below target", "Dynamic range exceeds target"}
      [] k = "brightness" ->
           {"Spectral centroid is above target", "Spectral centroid is below target"}
      [] k = "stereo_width" ->
           {"Stereo width exceeds target", "Stereo width is below target"}

ScalarIssues(res, k) ==
    SelectSeq(res.issues, LAMBDA i : i.message.text \in ScalarTexts(k))

----------------------------------------------------------------------------
(* Properties of Range                                                     *)

\* C2: for every Range r (degenerate and inverted ones too) and value v,
\* r.contains(v) holds iff r.deviation(v) = 0; the deviation is 0 inside,
\* low - v below the range, v - high above it (one of the two for a value that
\* is both below low and above high of an inverted range), never negative.
C2_ContainsIffDeviationZero ==
    (containsResult.called /\ deviationResult.called) =>
      LET c == containsResult.ret
          d == deviationResult.ret
      IN  /\ c <=> (d = 0)
          /\ c <=> InRange(range, value)
          /\ InRange(range, value) => d = 0
          /\ (Below(range, value) /\ ~Above(range, value)) => d = range.low - value
          /\ (Above(range, value) /\ ~Below(range, value)) => d = value - range.high
          /\ (Below(range, value) /\ Above(range, value)) =>
               d \in {range.low - value, value - range.high}
          /\ d >= 0

C2_Witness ==
    /\ containsResult.called /\ deviationResult.called
    /\ range.low > range.high
    /\ Below(range, value) /\ Above(range, value)
    /\ ~containsResult.ret
    /\ deviationResult.ret > 0

----------------------------------------------------------------------------
(* Properties of evaluate                                                  *)

\* C1: when every target the profile sets (band targets, dynamic_range_db,
\* brightness, stereo_width) contains the measured value, evaluate returns
\* cohesion_score 100.0 and no issues.
C1_AllInRangeIsPerfect ==
    (evaluation.called /\
     \A k \in Constrained(profile) :
        InRange(TargetOf(profile, k), MeasuredOf(analysis, k))) =>
      /\ evaluation.ret.cohesion_score = 1000
      /\ evaluation.ret.issues = <<>>

C1_Witness ==
    /\ evaluation.called
    /\ Constrained(profile) = Keys
    /\ \E k \in ScalarKeys, b \in Bands :
          /\ TargetOf(profile, k) # WideRange
          /\ MeasuredOf(analysis, k) = TargetOf(profile, k).low
          /\ TargetOf(profile, b) # WideRange
          /\ MeasuredOf(analysis, b) = TargetOf(profile, b).high
    /\ \A k \in Keys : InRange(TargetOf(profile, k), MeasuredOf(analysis, k))
    /\ evaluation.ret.cohesion_score = 1000

\* C3: cohesion_score is the mean, rounded to 1 decimal, of exactly the
\* scores of the constrained metrics (bands with a target, present scalar
\* targets); it is 100.0 when nothing is constrained; it lies in [0, 100].
C3_CohesionIsRoundedMean ==
    evaluation.called =>
      /\ CohesionIsMeanOfConstrained(evaluation.ret, analysis, profile)
      /\ 0 <= evaluation.ret.cohesion_score
      /\ evaluation.ret.cohesion_score <= 1000

C3_Witness ==
    /\ evaluation.called
    /\ \E b \in Bands, k \in ScalarKeys :
          /\ Constrained(profile) = {b, k}
          /\ ComponentScore(analysis, profile, b) # ComponentScore(analysis, profile, k)
          /\ ComponentScore(analysis, profile, b) # R(100)
          /\ ComponentScore(analysis, profile, k) # R(0)
    /\ evaluation.ret.cohesion_score \notin {0, 1000}

\* C4: a band without a target scores 100.0, gets no issue and adds nothing to
\* the cohesion average; band_scores always holds all seven bands.
C4_UntargetedBandIsNeutral ==
    evaluation.called =>
      /\ DOMAIN evaluation.ret.band_scores = Bands
      /\ \A b \in Bands \ Constrained(profile) :
            /\ evaluation.ret.band_scores[b] = 1000
            /\ BandIssues(evaluation.ret, b) = <<>>
      /\ (Bands \ Constrained(profile) # {}) =>
            CohesionIsMeanOfConstrained(evaluation.ret, analysis, profile)

C4_Witness ==
    /\ evaluation.called
    /\ \E b, c \in Bands :
          /\ b \notin Constrained(profile)
          /\ analysis.frequency_bands[b] = FarValue
          /\ c \in Constrained(profile)
          /\ evaluation.ret.band_scores[c] = 0
    /\ evaluation.ret.cohesion_score = 0

ExcessCategory ==
    [b \in Bands |->
       CASE b = "sub_bass" -> "rumble"
         [] b \in {"bass", "low_mid"} -> "mud"
         [] b = "mid" -> "masking"
         [] b \in {"upper_mid", "presence"} -> "harshness"
         [] b = "brilliance" -> "sibilance"]

\* high if dev > 2*span, medium if dev > span, else low
ExpectedSeverity(t, k, dev) ==
    IF dev > TwiceSpan(t, k) THEN "high"
    ELSE IF 2 * dev > TwiceSpan(t, k) THEN "medium"
    ELSE "low"

\* C5: a band with a target gets an issue iff its deviation dev > 0, and then
\* exactly one: severity high if dev > 2*span, medium if dev > span, else low;
\* category the band's excess category above the range, thin_<band> below it
\* (one of the two for a value both above high and below low).
C5_BandIssue ==
    evaluation.called =>
      \A b \in Bands \cap Constrained(profile) :
        LET t == TargetOf(profile, b)
            actual == MeasuredOf(analysis, b)
            dev == deviation(t, actual)
            found == BandIssues(evaluation.ret, b)
        IN  /\ Len(found) = IF dev > 0 THEN 1 ELSE 0
            /\ dev > 0 =>
                 /\ found[1].band = b
                 /\ found[1].severity = ExpectedSeverity(t, b, dev)
                 /\ (Above(t, actual) /\ ~Below(t, actual)) =>
                       found[1].category = ExcessCategory[b]
                 /\ (Below(t, actual) /\ ~Above(t, actual)) =>
                       found[1].category = "thin_" \o b
                 /\ found[1].category \in {ExcessCategory[b], "thin_" \o b}

C5_Witness ==
    /\ evaluation.called
    /\ \E b, c \in Bands \cap Constrained(profile) :
         LET t == TargetOf(profile, b)
             u == TargetOf(profile, c)
         IN  /\ t.high > t.low
             /\ MeasuredOf(analysis, b) = t.low - (t.high - t.low)
             /\ BandIssues(evaluation.ret, b)[1].severity = "medium"
             /\ BandIssues(evaluation.ret, b)[1].category = "thin_" \o b
             /\ Above(u, MeasuredOf(analysis, c))
             /\ BandIssues(evaluation.ret, c)[1].severity = "high"
             /\ BandIssues(evaluation.ret, c)[1].category = ExcessCategory[c]

FixedPair(k, side) ==
    CASE k = "dynamic_range_db" /\ side = "below" ->
           [category |-> "over_compressed", severity |-> "medium"]
      [] k = "dynamic_range_db" /\ side = "above" ->
           [category |-> "under_compressed", severity |-> "low"]
      [] k = "brightness" /\ side = "above" ->
           [category |-> "harshness", severity |-> "medium"]
      [] k = "brightness" /\ side = "below" ->
           [category |-> "dullness", severity |-> "medium"]
      [] k = "stereo_width" /\ side = "above" ->
           [category |-> "too_wide", severity |-> "low"]
      [] k = "stereo_width" /\ side = "below" ->
           [category |-> "too_narrow", severity |-> "low"]

PairOf(issue) == [category |-> issue.category, severity |-> issue.severity]

\* C6: a present scalar target (dynamic range, brightness, stereo width) gets
\* no issue when the value is in range and exactly one when it is not, with
\* the metric's fixed category and severity for the side the value lies on
\* (one of the metric's two pairs for a value both below low and above high),
\* whatever the distance.
C6_ScalarIssue ==
    evaluation.called =>
      \A k \in ScalarKeys :
        LET t == TargetOf(profile, k)
            x == MeasuredOf(analysis, k)
            found == ScalarIssues(evaluation.ret, k)
        IN  IF t = None \/ InRange(t, x) THEN found = <<>>
            ELSE /\ Len(found) = 1
                 /\ (Below(t, x) /\ ~Above(t, x)) =>
                       PairOf(found[1]) = FixedPair(k, "below")
                 /\ (Above(t, x) /\ ~Below(t, x)) =>
                       PairOf(found[1]) = FixedPair(k, "above")
                 /\ PairOf(found[1]) \in {FixedPair(k, "below"), FixedPair(k, "above")}

C6_Witness ==
    /\ evaluation.called
    /\ \E k, j \in ScalarKeys :
         LET t == TargetOf(profile, k)
             u == TargetOf(profile, j)
         IN  /\ k # j /\ t # None /\ u # None
             /\ MeasuredOf(analysis, k) = FarValue
             /\ deviation(t, FarValue) > TwiceSpan(t, k)
             /\ PairOf(ScalarIssues(evaluation.ret, k)[1]) = FixedPair(k, "above")
             /\ Below(u, MeasuredOf(analysis, j)) /\ u.low <= u.high
             /\ PairOf(ScalarIssues(evaluation.ret, j)[1]) = FixedPair(j, "below")

----------------------------------------------------------------------------
(* Inputs of audition                                                      *)

HighEnergy == 3
EnergyLevels == {0, 1, HighEnergy}

\* dynamic range, flatness and stereo width on either side of the
\* classifier's thresholds (20 dB, 0.3 and 0.1)
Features == [dr : {200, 201}, flatness : {3, 4}, width : {1, 2}]
CalmFeatures == [dr |-> 200, flatness |-> 3, width |-> 1]
LivelyFeatures == [dr |-> 201, flatness |-> 4, width |-> 2]

GivenRoles == TRACK_ROLES \cup {"vocals"}

AuditionProfiles ==
    {StyleProfile("bare", "no targets", <<>>, None, None, None, None),
     StyleProfile("low-end", "targets on three bands",
                  [b \in {"bass", "mid", "presence"} |->
                     Range(0, IF b = "mid" THEN 2 ELSE 1)],
                  None, None, None, None)}

\* Band energies that put the proportion of the avoided bands of a role
\* exactly on the penalty threshold 0.15 (3 of 20): sub_bass for lead and
\* percussion, upper_mid for bass.
ThresholdBands ==
    {[b \in Bands |-> CASE b = "sub_bass" -> 3 [] b = "bass" -> 9
                         [] b = "mid" -> 8 [] OTHER -> 0],
     [b \in Bands |-> CASE b = "upper_mid" -> 3 [] b = "low_mid" -> 9
                         [] b = "bass" -> 8 [] OTHER -> 0]}

InitAudition ==
    /\ \E bands \in [Bands -> EnergyLevels] \cup ThresholdBands, f \in Features :
          /\ analysis = AudioAnalysis(bands, f.dr, 0, f.flatness, f.width)
          /\ \/ role = NoRole
             \/ role \in GivenRoles /\ f \in {CalmFeatures, LivelyFeatures}
    /\ profile \in AuditionProfiles
    /\ auditionResult = NotCalled
    /\ evaluation = Unused
    /\ RangeUnused /\ ShellUnused

CallAudition ==
    /\ auditionResult = NotCalled
    /\ auditionResult' = Returned(audition(analysis, profile, role))
    /\ UNCHANGED <<range, value, containsResult, deviationResult, analysis,
                   profile, role, evaluation,
                   analyzerVars, storeVars, snapshotVars, frames>>

SpecAudition == InitAudition /\ [][CallAudition]_vars

----------------------------------------------------------------------------
(* Properties of audition                                                  *)

TotalEnergy(an) == SumBands(an.frequency_bands, BandOrder)

\* The exact proportion of band b in the total band energy (0 for silence)
Proportion(an, b) ==
    IF TotalEnergy(an) = 0 THEN R(0)
    ELSE Rat(an.frequency_bands[b], TotalEnergy(an))

RECURSIVE ProportionOf(_, _)
ProportionOf(an, bs) ==
    IF bs = {} THEN R(0)
    ELSE LET b == CHOOSE x \in bs : TRUE
         IN  RatAdd(Proportion(an, b), ProportionOf(an, bs \ {b}))

IssuesOfCategory(res, category) ==
    SelectSeq(res.issues, LAMBDA i : i.category = category)

\* C7: an explicit role is the result's role verbatim, whatever the analysis
\* and whatever auto-classification would have returned; a role outside the
\* five recognized ones is accepted and scored with primary bands {mid} and
\* no avoid bands (fit_score = min(100, 200 * mid proportion), no
\* role_conflict issue).
C7_ExplicitRoleVerbatim ==
    (auditionResult.called /\ role # NoRole) =>
      /\ auditionResult.ret.role = role
      /\ role \notin TRACK_ROLES =>
           /\ NearestTenth(auditionResult.ret.fit_score,
                           RatMin(R(100), RatMul(R(200), Proportion(analysis, "mid"))))
           /\ IssuesOfCategory(auditionResult.ret, "role_conflict") = <<>>

C7_Witness ==
    /\ auditionResult.called
    /\ role = "vocals"
    /\ auditionResult.ret.role = "vocals"
    /\ _classify_role(analysis, FreqProfile(analysis.frequency_bands)) = "bass"
    /\ RatLt(Rat(15, 100), Proportion(analysis, "sub_bass"))
    /\ auditionResult.ret.fit_score \notin {0, 1000}

LowDominant(an) == RatLt(Rat(1, 2), ProportionOf(an, {"sub_bass", "bass"}))
MidDominant(an) == RatLt(Rat(1, 2), ProportionOf(an, {"mid", "upper_mid"}))

\* C8 as stated: with no explicit role, every low-frequency-dominant analysis
\* (sub_bass+bass proportion above 0.5) resolves to bass and every
\* mid/upper-mid-dominant one (mid+upper_mid above 0.5) to lead.
C8_DominanceDecidesRole ==
    (auditionResult.called /\ role = NoRole) =>
      /\ LowDominant(analysis) => auditionResult.ret.role = "bass"
      /\ MidDominant(analysis) => auditionResult.ret.role = "lead"

PercussionRule(an) ==
    /\ an.loudness.dynamic_range_db > 200
    /\ RatLt(Rat(1, 4), ProportionOf(an, {"presence", "brilliance"}))

TextureRule(an) == an.spectral.flatness_mean > 3

PadRule(an) ==
    /\ \A b, c \in Bands :
          RatLt(RatSub(Proportion(an, b), Proportion(an, c)), Rat(1, 5))
    /\ an.stereo.width > 1

\* C8 amended: with no explicit role, a low-frequency-dominant analysis
\* resolves to bass unless it matches the percussion rule (dynamic range > 20
\* and presence+brilliance > 0.25) or the texture rule (flatness mean > 0.3);
\* a mid/upper-mid-dominant analysis resolves to lead unless it matches the
\* percussion, the texture or the pad rule (spread of the band proportions
\* < 0.2 and stereo width > 0.1).
C8_DominanceDecidesRoleAfterEarlierRules ==
    (auditionResult.called /\ role = NoRole) =>
      /\ (LowDominant(analysis) /\ ~PercussionRule(analysis) /\ ~TextureRule(analysis))
           => auditionResult.ret.role = "bass"
      /\ (MidDominant(analysis) /\ ~PercussionRule(analysis) /\ ~TextureRule(analysis)
            /\ ~PadRule(analysis))
           => auditionResult.ret.role = "lead"

C8_Witness ==
    /\ auditionResult.called /\ role = NoRole
    /\ LowDominant(analysis)
    /\ PadRule(analysis)
    /\ analysis.loudness.dynamic_range_db > 200
    /\ ~PercussionRule(analysis) /\ ~TextureRule(analysis)
    /\ auditionResult.ret.role = "bass"

RECURSIVE SumEntries(_, _)
SumEntries(f, S) ==
    IF S = {} THEN 0
    ELSE LET x == CHOOSE y \in S : TRUE IN f[x] + SumEntries(f, S \ {x})

\* C9: frequency_profile has exactly seven entries, each in [0, 1]; they sum
\* to 1 within 0.01 (after the 4-decimal rounding) when the total band energy
\* is non-zero, and are all 0 when it is zero.
C9_FrequencyProfileSumsToOne ==
    auditionResult.called =>
      LET fp == auditionResult.ret.frequency_profile IN
      /\ DOMAIN fp = Bands /\ Cardinality(DOMAIN fp) = 7
      /\ \A b \in Bands : 0 <= fp[b] /\ fp[b] <= 10000
      /\ TotalEnergy(analysis) # 0 =>
           Abs(SumEntries(fp, Bands) - 10000) < 100
      /\ TotalEnergy(analysis) = 0 => \A b \in Bands : fp[b] = 0

C9_Witness ==
    /\ auditionResult.called
    /\ TotalEnergy(analysis) # 0
    /\ SumEntries(auditionResult.ret.frequency_profile, Bands) \notin {0, 10000}

SeqRange(seq) == {seq[i] : i \in DOMAIN seq}

\* C10: dominant_bands is the shortest prefix of the bands in descending
\* order of proportion whose cumulative proportion is >= 0.7: it lists
\* distinct bands in descending order, no unlisted band has more than a
\* listed one, the listed bands reach 0.7, without the last one they stay
\* below 0.7, no band of proportion zero is listed, and the list is empty
\* exactly when the total band energy is zero.
C10_DominantBandsShortestPrefix ==
    auditionResult.called =>
      LET dom == auditionResult.ret.dominant_bands
          n == Len(dom)
          p(b) == Proportion(analysis, b)
      IN  /\ SeqRange(dom) \subseteq Bands
          /\ Cardinality(SeqRange(dom)) = n
          /\ \A i, j \in 1 .. n : i < j => RatLe(p(dom[j]), p(dom[i]))
          /\ \A b \in SeqRange(dom), c \in Bands \ SeqRange(dom) : RatLe(p(c), p(b))
          /\ \A b \in SeqRange(dom) : RatLt(R(0), p(b))
          /\ (n = 0) <=> (TotalEnergy(analysis) = 0)
          /\ n > 0 =>
               /\ RatLe(Rat(7, 10), ProportionOf(analysis, SeqRange(dom)))
               /\ RatLt(ProportionOf(analysis, SeqRange(SubSeq(dom, 1, n - 1))),
                        Rat(7, 10))

C10_Witness ==
    /\ auditionResult.called
    /\ Len(auditionResult.ret.dominant_bands) = 3
    /\ ProportionOf(analysis, SeqRange(auditionResult.ret.dominant_bands)) = Rat(7, 10)
    /\ \E b \in Bands \ SeqRange(auditionResult.ret.dominant_bands) :
          Proportion(analysis, b) =
            Proportion(analysis, auditionResult.ret.dominant_bands[3])

----------------------------------------------------------------------------
(* The feature extractor (src/src/rubin/analyzer.py).                      *)
(*                                                                         *)
(* Samples, magnitudes and frame RMS values are integers counting an       *)
(* arbitrary quantum; energies and means are exact rationals.  The outputs *)
(* of librosa (frame RMS, spectrogram, bin frequencies) are inputs of the  *)
(* model; the spectral and timbre features, which analyze only copies out  *)
(* of librosa, are left out.  Decibels count tenths of a dB.               *)

\* float('nan'): np.mean of an empty array.  Every comparison with it is false.
NaN == [nan |-> TRUE]

Raised(exc) == [raised |-> exc]

FAdd(a, b) == IF a = NaN \/ b = NaN THEN NaN ELSE RatAdd(a, b)
\* x > 0
FPositive(x) == x # NaN /\ RatLt(R(0), x)

RECURSIVE SumSeq(_)
SumSeq(s) == IF s = <<>> THEN 0 ELSE Head(s) + SumSeq(Tail(s))

\* np.mean of a one-dimensional array of rationals
Mean(xs) == IF xs = <<>> THEN NaN ELSE RatDiv(RatSum(xs), R(Len(xs)))

Mask_closed(fs, lo, hi) == {i \in DOMAIN fs : fs[i] >= lo /\ fs[i] <= hi}

\* mask = (freqs >= lo) & (freqs < hi), as the set of selected bins
Mask(fs, lo, hi) == {i \in DOMAIN fs : fs[i] >= lo /\ fs[i] < hi}

\* S[mask]: the selected rows, in bin order
RECURSIVE SelectRows(_, _, _)
SelectRows(Sp, mask, i) ==
    IF i = 0 THEN <<>>
    ELSE SelectRows(Sp, mask, i - 1) \o (IF i \in mask THEN <<Sp[i]>> ELSE <<>>)

\* all entries of a two-dimensional array
RECURSIVE Flatten(_)
Flatten(rows) == IF rows = <<>> THEN <<>> ELSE Head(rows) \o Flatten(Tail(rows))

_band_energy(Sp, fs, lo, hi) ==
    LET mask == Mask(fs, lo, hi) IN
    IF mask = {} THEN R(0)
    ELSE LET entries == Flatten(SelectRows(Sp, mask, Len(Sp)))
         IN  Rat(SumSeq(entries), Len(entries))

\* The lo, hi arguments of the seven _band_energy calls of analyze
BandEdges ==
    [sub_bass |-> [lo |-> 20, hi |-> 60],
     bass |-> [lo |-> 60, hi |-> 250],
     low_mid |-> [lo |-> 250, hi |-> 500],
     mid |-> [lo |-> 500, hi |-> 2000],
     upper_mid |-> [lo |-> 2000, hi |-> 4000],
     presence |-> [lo |-> 4000, hi |-> 6000],
     brilliance |-> [lo |-> 6000, hi |-> 20000]]

FrequencyBandEnergy(Sp, fs) ==
    [b \in Bands |-> _band_energy(Sp, fs, BandEdges[b].lo, BandEdges[b].hi)]

SeqMin(xs) == CHOOSE m \in {xs[i] : i \in DOMAIN xs} : \A i \in DOMAIN xs : m <= xs[i]
SeqMax(xs) == CHOOSE m \in {xs[i] : i \in DOMAIN xs} : \A i \in DOMAIN xs : xs[i] <= m

\* log10 of a power of ten (the only ratios the model's RMS levels form)
RECURSIVE Log10Int(_)
Log10Int(n) == IF n < 10 THEN 0 ELSE 1 + Log10Int(n \div 10)
Log10(x) == IF x.d = 1 THEN Log10Int(x.n) ELSE -Log10Int(x.d)

\* 20 * np.log10(rms_max / rms_min) if rms_min > 0 and rms_max > 0 else 0.0
DynamicRangeDb(rms_min, rms_max) ==
    IF rms_min > 0 /\ rms_max > 0
    THEN 200 * Log10(Rat(rms_max, rms_min))
    ELSE 0

LoudnessFeatures(rms_frames) ==
    LET rms_min == SeqMin(rms_frames)
        rms_max == SeqMax(rms_frames)
    IN  [rms_mean |-> Rat(SumSeq(rms_frames), Len(rms_frames)),
         rms_max |-> rms_max,
         rms_min |-> rms_min,
         dynamic_range_db |-> DynamicRangeDb(rms_min, rms_max)]

Stack_with_silence(a) ==
    IF a.ndim = 1
    THEN [ndim |-> 2, data |-> <<a.data, [i \in DOMAIN a.data |-> 0]>>]
    ELSE a

\* if audio.ndim == 1: audio = np.stack([audio, audio])
Stack(a) ==
    IF a.ndim = 1 THEN [ndim |-> 2, data |-> <<a.data, a.data>>] ELSE a

\* mean(x ** 2) of a signal of rationals
Energy(signal) == Mean([i \in DOMAIN signal |-> RatMul(signal[i], signal[i])])

Width_of_mid(side_energy, mid_energy) ==
    LET total_energy == FAdd(mid_energy, side_energy) IN
    IF FPositive(total_energy) THEN RatDiv(mid_energy, total_energy) ELSE R(0)

\* width = side_energy / total_energy if total_energy > 0 else 0.0
Width(side_energy, mid_energy) ==
    LET total_energy == FAdd(mid_energy, side_energy) IN
    IF FPositive(total_energy) THEN RatDiv(side_energy, total_energy) ELSE R(0)

\* balance = (right_energy - left_energy) / total_lr if total_lr > 0 else 0.0
Balance(left_energy, right_energy) ==
    LET total_lr == FAdd(left_energy, right_energy) IN
    IF FPositive(total_lr)
    THEN RatDiv(RatSub(right_energy, left_energy), total_lr)
    ELSE R(0)

\* n^2 times the population variance of xs: np.std(xs) > 0 iff it is positive
ScaledVariance(xs) ==
    Len(xs) * SumSeq([i \in DOMAIN xs |-> xs[i] * xs[i]]) - SumSeq(xs) * SumSeq(xs)

\* n^2 times the covariance of xs and ys
ScaledCovariance(xs, ys) ==
    Len(xs) * SumSeq([i \in DOMAIN xs |-> xs[i] * ys[i]]) - SumSeq(xs) * SumSeq(ys)

Sign(i) == IF i > 0 THEN 1 ELSE IF i < 0 THEN -1 ELSE 0

\* A correlation coefficient, kept exact as its sign and its square.
Coefficient(sign, square) == [sign |-> sign, square |-> square]

\* np.corrcoef(left, right)[0, 1]
Corrcoef(left, right) ==
    LET cov == ScaledCovariance(left, right) IN
    Coefficient(Sign(cov),
                Rat(cov * cov, ScaledVariance(left) * ScaledVariance(right)))

Correlation_unguarded(left, right) ==
    IF Len(left) > 0
    THEN IF ScaledVariance(left) > 0 /\ ScaledVariance(right) > 0
         THEN Corrcoef(left, right)
         ELSE NaN
    ELSE NaN

\* corrcoef if np.std(left) > 0 and np.std(right) > 0 else 1.0; 1.0 when empty
Correlation(left, right) ==
    IF Len(left) > 0
    THEN IF ScaledVariance(left) > 0 /\ ScaledVariance(right) > 0
         THEN Corrcoef(left, right)
         ELSE Coefficient(1, R(1))
    ELSE Coefficient(1, R(1))

StereoFeatures(left, right) ==
    LET mid_signal == [i \in DOMAIN left |-> Rat(left[i] + right[i], 2)]
        side_signal == [i \in DOMAIN left |-> Rat(left[i] - right[i], 2)]
        mid_energy == Energy(mid_signal)
        side_energy == Energy(side_signal)
        left_energy == Energy([i \in DOMAIN left |-> R(left[i])])
        right_energy == Energy([i \in DOMAIN right |-> R(right[i])])
    IN  [width |-> Width(side_energy, mid_energy),
         balance |-> Balance(left_energy, right_energy),
         correlation |-> Correlation(left, right)]

analyze(a, rms_frames, Sp, fs) ==
    LET stacked == Stack(a)
        num_channels == Len(stacked.data)
        num_samples == Len(stacked.data[1])
    IN  [loudness |-> LoudnessFeatures(rms_frames),
         frequency_bands |-> FrequencyBandEnergy(Sp, fs),
         stereo |-> StereoFeatures(stacked.data[1], stacked.data[2]),
         num_samples |-> num_samples,
         num_channels |-> num_channels]

----------------------------------------------------------------------------
(* Inputs of analyze and _band_energy                                      *)

MaxSamples == 2
MaxBins == 3

SampleLevels == {-1, 0, 1, 2}
SampleSeqs == UNION {[1 .. n -> SampleLevels] : n \in 0 .. MaxSamples}

\* One-dimensional buffers, and two-channel buffers of equally long channels.
Buffers ==
    {[ndim |-> 1, data |-> xs] : xs \in SampleSeqs}
    \cup UNION {{[ndim |-> 2, data |-> <<l, r>>] : l, r \in [1 .. n -> SampleLevels]} :
                  n \in 0 .. MaxSamples}

\* Frame RMS values whose ratios are powers of ten.
RmsLevels == {0, 1, 10, 100}
RmsFrameSeqs == UNION {[1 .. n -> RmsLevels] : n \in {1, 2}}

\* Bin frequencies on and next to the band edges; rows of two frames.
FreqCandidates == {0, 20, 59, 60, 250, 5999, 6000, 20000}
SpectrogramRows == {<<0, 0>>, <<1, 0>>, <<2, 4>>}

RECURSIVE Ascending(_)
Ascending(fset) ==
    IF fset = {} THEN <<>>
    ELSE LET m == CHOOSE x \in fset : \A y \in fset : x <= y
         IN  <<m>> \o Ascending(fset \ {m})

BinFreqs == {Ascending(fset) : fset \in {F \in SUBSET FreqCandidates : Cardinality(F) <= MaxBins}}

Intervals ==
    {BandEdges["sub_bass"], BandEdges["bass"], [lo |-> 0, hi |-> 20],
     [lo |-> 60, hi |-> 60], [lo |-> 250, hi |-> 60]}

DefaultAudio == [ndim |-> 2, data |-> <<<<1, 0>>, <<0, 1>>>>]
DefaultRms == <<1, 10>>
DefaultFreqs == <<20, 60>>
DefaultSpectrogram == <<<<1, 0>>, <<2, 4>>>>
DefaultInterval == BandEdges["bass"]

\* The three blocks of analyze are independent: one block's inputs vary
\* while the other blocks keep a default.
InitAnalyze ==
    /\ \/ /\ audio \in Buffers
          /\ rmsFrames = DefaultRms
          /\ freqs = DefaultFreqs /\ spectrogram = DefaultSpectrogram
          /\ interval = DefaultInterval
       \/ /\ audio = DefaultAudio
          /\ rmsFrames \in RmsFrameSeqs
          /\ freqs = DefaultFreqs /\ spectrogram = DefaultSpectrogram
          /\ interval = DefaultInterval
       \/ /\ audio = DefaultAudio
          /\ rmsFrames = DefaultRms
          /\ freqs \in BinFreqs
          /\ spectrogram \in [DOMAIN freqs -> SpectrogramRows]
          /\ interval \in Intervals
    /\ bandEnergyResult = NotCalled /\ analyzeResult = NotCalled
    /\ RangeUnused
    /\ analysis = Unused /\ profile = Unused /\ role = Unused
    /\ evaluation = Unused /\ auditionResult = Unused
    /\ StoreUnused /\ SnapshotsUnused /\ frames = Unused

CallBandEnergy ==
    /\ bandEnergyResult = NotCalled
    /\ bandEnergyResult' =
         Returned(_band_energy(spectrogram, freqs, interval.lo, interval.hi))
    /\ UNCHANGED <<coreVars, audio, rmsFrames, spectrogram, freqs, interval,
                   analyzeResult, storeVars, snapshotVars, frames>>

CallAnalyze ==
    /\ analyzeResult = NotCalled
    /\ analyzeResult' = Returned(analyze(audio, rmsFrames, spectrogram, freqs))
    /\ UNCHANGED <<coreVars, audio, rmsFrames, spectrogram, freqs, interval,
                   bandEnergyResult, storeVars, snapshotVars, frames>>

NextAnalyze == CallBandEnergy \/ CallAnalyze

SpecAnalyze == InitAnalyze /\ [][NextAnalyze]_vars

----------------------------------------------------------------------------
(* Properties of the feature extractor                                     *)

\* The bins whose frequency lies in [lo, hi).
BinsIn(e) == {i \in DOMAIN freqs : e.lo <= freqs[i] /\ freqs[i] < e.hi}

RECURSIVE SumOver(_, _)
SumOver(f, D) ==
    IF D = {} THEN 0
    ELSE LET i == CHOOSE j \in D : TRUE IN f[i] + SumOver(f, D \ {i})

\* x is the arithmetic mean of every frame magnitude of the bins in sel,
\* and 0.0 when sel is empty.
IsBandMean(x, sel) ==
    IF sel = {} THEN x = R(0)
    ELSE LET total == SumOver([i \in sel |-> SumSeq(spectrogram[i])], sel)
             count == SumOver([i \in sel |-> Len(spectrogram[i])], sel)
         IN  x.n * count = total * x.d

\* C11: _band_energy returns the arithmetic mean of the magnitudes of exactly
\* the bins with lo <= freq < hi, and 0.0 when no bin lies in the interval;
\* analyze applies it to the seven fixed bands, whose intervals count every
\* bin in at most one band.
C11_BandEnergyHalfOpenMean ==
    /\ bandEnergyResult.called =>
         IsBandMean(bandEnergyResult.ret, BinsIn(interval))
    /\ analyzeResult.called =>
         /\ \A b \in Bands :
              IsBandMean(analyzeResult.ret.frequency_bands[b], BinsIn(BandEdges[b]))
         /\ \A i \in DOMAIN freqs :
              Cardinality({b \in Bands : i \in Mask(freqs, BandEdges[b].lo, BandEdges[b].hi)}) <= 1

\* A bin on the edge shared by two bands (60 Hz) and a band without any bin,
\* both analysed, and a direct call on an interval that holds no bin.
C11_Witness ==
    /\ analyzeResult.called /\ bandEnergyResult.called
    /\ \E i \in DOMAIN freqs : freqs[i] = 60 /\ SumSeq(spectrogram[i]) > 0
    /\ \E i \in DOMAIN freqs : freqs[i] = 59
    /\ analyzeResult.ret.frequency_bands["bass"] # R(0)
    /\ analyzeResult.ret.frequency_bands["low_mid"] = R(0)
    /\ BinsIn(interval) = {} /\ freqs # <<>>
    /\ bandEnergyResult.ret = R(0)

----------------------------------------------------------------------------
(* Degenerate inputs: analyze on silent, constant and empty buffers with   *)
(* silent frames, and audition on analyses at and next to silence.         *)

SilentBands == [b \in Bands |-> 0]
QuietAnalyses ==
    {AudioAnalysis(bands, f.dr, 0, f.flatness, f.width) :
       bands \in [Bands -> {0, 1}], f \in {CalmFeatures, LivelyFeatures}}
SilentAnalysis ==
    AudioAnalysis(SilentBands, CalmFeatures.dr, 0, CalmFeatures.flatness,
                  CalmFeatures.width)
SilentAudio == [ndim |-> 2, data |-> <<<<0, 0>>, <<0, 0>>>>]
SilentFrameRms == <<0, 10>>

InitDegenerate ==
    /\ \/ /\ \/ audio \in Buffers /\ rmsFrames = SilentFrameRms
             \/ audio = SilentAudio /\ rmsFrames \in RmsFrameSeqs
          /\ analysis = SilentAnalysis
          /\ profile \in AuditionProfiles
          /\ role = NoRole
       \/ /\ audio = SilentAudio
          /\ rmsFrames = SilentFrameRms
          /\ analysis \in QuietAnalyses
          /\ profile \in AuditionProfiles
          /\ role \in {NoRole} \cup GivenRoles
    /\ freqs = DefaultFreqs /\ spectrogram = DefaultSpectrogram
    /\ analyzeResult = NotCalled /\ auditionResult = NotCalled
    /\ interval = Unused /\ bandEnergyResult = Unused
    /\ evaluation = Unused
    /\ RangeUnused /\ StoreUnused /\ SnapshotsUnused /\ frames = Unused

NextDegenerate == CallAnalyze \/ CallAudition

SpecDegenerate == InitDegenerate /\ [][NextDegenerate]_vars

\* The two channels analyze reads out of the buffer it is given.
LeftOf(a) == IF a.ndim = 1 THEN a.data ELSE a.data[1]
RightOf(a) == IF a.ndim = 1 THEN a.data ELSE a.data[2]

\* Zero variance: every sample equals every other (also of an empty channel).
IsConstant(xs) == \A i, j \in DOMAIN xs : xs[i] = xs[j]
IsSilent(xs) == \A i \in DOMAIN xs : xs[i] = 0

PerfectCorrelation == Coefficient(1, R(1))

\* C12: analyze resolves every degenerate case to its safe value: the dynamic
\* range is 0.0 unless the smallest and the largest frame RMS are both
\* positive, and is never negative; width and balance are 0.0 when the
\* buffer carries no energy; correlation is 1.0 when a channel has zero
\* variance or the buffer is empty; and audition's frequency profile is all
\* zero when the total band energy is zero.
C12_DegenerateCasesAreSafe ==
    /\ analyzeResult.called =>
         LET res == analyzeResult.ret
             left == LeftOf(audio)
             right == RightOf(audio)
         IN  /\ (\E i \in DOMAIN rmsFrames : rmsFrames[i] <= 0)
                  => res.loudness.dynamic_range_db = 0
             /\ res.loudness.dynamic_range_db >= 0
             /\ (IsSilent(left) /\ IsSilent(right))
                  => res.stereo.width = R(0) /\ res.stereo.balance = R(0)
             /\ (IsConstant(left) \/ IsConstant(right))
                  => res.stereo.correlation = PerfectCorrelation
    /\ auditionResult.called =>
         ((\A b \in Bands : analysis.frequency_bands[b] = 0)
            => \A b \in Bands : auditionResult.ret.frequency_profile[b] = 0)

\* A silent two-sample buffer with a silent frame and a silent analysis,
\* analysed and auditioned.
C12_Witness ==
    /\ analyzeResult.called /\ auditionResult.called
    /\ audio = SilentAudio
    /\ rmsFrames = SilentFrameRms
    /\ analysis = SilentAnalysis
    /\ analyzeResult.ret.loudness.dynamic_range_db = 0
    /\ analyzeResult.ret.stereo =
         [width |-> R(0), balance |-> R(0), correlation |-> PerfectCorrelation]
    /\ \A b \in Bands : auditionResult.ret.frequency_profile[b] = 0

----------------------------------------------------------------------------
\* c > bound, for a correlation coefficient c and a rational bound >= 0
CoefficientAbove(c, bound) ==
    c.sign = 1 /\ RatLt(RatMul(bound, bound), c.square)

\* C13: for every buffer whose left and right channels are identical, a
\* one-dimensional (single-channel) buffer included, analyze reports
\* stereo.width < 0.01 and stereo.correlation > 0.99, and two channels.
C13_IdenticalChannelsAreMono ==
    (analyzeResult.called /\ LeftOf(audio) = RightOf(audio)) =>
       LET res == analyzeResult.ret IN
       /\ RatLt(res.stereo.width, Rat(1, 100))
       /\ CoefficientAbove(res.stereo.correlation, Rat(99, 100))
       /\ res.num_channels = 2

\* A one-dimensional buffer of two different samples, analysed.
C13_Witness ==
    /\ analyzeResult.called
    /\ audio.ndim = 1
    /\ Len(audio.data) = 2 /\ ~IsConstant(audio.data)
    /\ analyzeResult.ret.num_channels = 2
    /\ analyzeResult.ret.stereo.width = R(0)

----------------------------------------------------------------------------
\* Sum of the squares of xs[i] + k * ys[i]
SumSquares(xs, k, ys) ==
    SumSeq([i \in DOMAIN xs |-> (xs[i] + k * ys[i]) * (xs[i] + k * ys[i])])

\* x = num / den
IsQuotient(x, num, den) == x.n * den = num * x.d

\* C14: for every two-channel buffer analyze reports stereo.width in [0, 1]
\* and stereo.balance in [-1, 1]; width is side energy over side plus mid
\* energy and balance is right minus left energy over left plus right
\* energy (wherever that sum is not zero).
C14_WidthAndBalance ==
    (analyzeResult.called /\ audio.ndim = 2) =>
       LET res == analyzeResult.ret
           left == audio.data[1]
           right == audio.data[2]
           side == SumSquares(left, -1, right)
           mid == SumSquares(left, 1, right)
           left_sq == SumSquares(left, 0, right)
           right_sq == SumSquares(right, 0, left)
       IN  /\ RatLe(R(0), res.stereo.width) /\ RatLe(res.stereo.width, R(1))
           /\ RatLe(R(-1), res.stereo.balance) /\ RatLe(res.stereo.balance, R(1))
           /\ side + mid > 0 => IsQuotient(res.stereo.width, side, side + mid)
           /\ left_sq + right_sq > 0 =>
                IsQuotient(res.stereo.balance, right_sq - left_sq, left_sq + right_sq)

\* A two-channel buffer, louder on the left, neither mono nor fully wide.
C14_Witness ==
    /\ analyzeResult.called
    /\ audio.ndim = 2
    /\ RatLt(R(0), analyzeResult.ret.stereo.width)
    /\ RatLt(analyzeResult.ret.stereo.width, R(1))
    /\ RatLt(analyzeResult.ret.stereo.balance, R(0))
    /\ RatLt(R(-1), analyzeResult.ret.stereo.balance)

----------------------------------------------------------------------------
(* Concurrent callers of evaluate and audition.                            *)
(*                                                                         *)
(* Each caller runs one call at a time; a call is a frame holding its      *)
(* arguments, its position and its local variables, and advances one       *)
(* statement group at a time, interleaved with the other caller's steps.   *)

Callers == {"caller_a", "caller_b"}

\* Positions of evaluate: the seven iterations of the band loop, the three
\* scalar blocks and the return statement; positions of audition.
EvaluatePositions ==
    BandOrder \o <<"dynamic_range_db", "brightness", "stereo_width", "return">>
AuditionPositions == <<"freq_profile", "dominant_bands", "role", "return">>

PositionAfter(order, pc) ==
    LET i == CHOOSE j \in DOMAIN order : order[j] = pc IN
    IF i = Len(order) THEN "done" ELSE order[i + 1]

\* issues = [], band_scores = {}, score_components = [] of evaluate, and
\* audition's freq_profile, dominant and role before their assignment (the
\* values standing for "not yet assigned" are never read by a call's own steps)
NewLocals ==
    [acc |-> [band_scores |-> <<>>, score_components |-> <<>>, issues |-> <<>>],
     freq_profile |-> [b \in Bands |-> R(0)], dominant |-> <<>>, role |-> NoRole]

IdleFrame ==
    [op |-> "none", pc |-> "idle", an |-> None, prof |-> None,
     given_role |-> NoRole, locals |-> NewLocals, result |-> None]

NewFrame(op, an, prof, given_role) ==
    [op |-> op,
     pc |-> IF op = "evaluate" THEN EvaluatePositions[1] ELSE AuditionPositions[1],
     an |-> an, prof |-> prof, given_role |-> given_role,
     locals |-> NewLocals, result |-> None]

\* The local variables of call c are those of its own frame.
Locals(fs, c) == fs[c].locals

StoreLocals_module_level(fs, c, loc) ==
    [x \in DOMAIN fs |-> [fs[x] EXCEPT !.locals = loc]]

\* An assignment to a local variable of call c changes its own frame only.
StoreLocals(fs, c, loc) == [fs EXCEPT ![c].locals = loc]

\* The statement group of evaluate at position pc, applied to the accumulators.
EvaluateStep(pc, acc, an, prof) ==
    IF pc \in Bands THEN BandStep(acc, pc, an.frequency_bands[pc], prof)
    ELSE IF pc = "dynamic_range_db" THEN DynamicRangeStep(acc, an, prof)
    ELSE IF pc = "brightness" THEN BrightnessStep(acc, an, prof)
    ELSE StereoWidthStep(acc, an, prof)

\* The statement group of audition at position pc, applied to the locals.
AuditionStep(pc, loc, an, given_role) ==
    IF pc = "freq_profile"
    THEN [loc EXCEPT !.freq_profile = FreqProfile(an.frequency_bands)]
    ELSE IF pc = "dominant_bands"
    THEN [loc EXCEPT !.dominant = DominantBands(loc.freq_profile)]
    ELSE [loc EXCEPT !.role = ResolveRole(given_role, an, loc.freq_profile)]

ConcurrentAnalyses ==
    {AudioAnalysis([b \in Bands |-> IF b \in {"sub_bass", "bass"} THEN HighEnergy ELSE 0],
                   LivelyFeatures.dr, FarValue, CalmFeatures.flatness,
                   CalmFeatures.width),
     AudioAnalysis([b \in Bands |-> 1], CalmFeatures.dr, 2, LivelyFeatures.flatness,
                   LivelyFeatures.width)}

ConcurrentProfiles ==
    {ProfileOf(<<>>, Range(2, 4)),
     CHOOSE prof \in AuditionProfiles : prof.name = "low-end"}

InitConcurrent ==
    /\ frames = [c \in Callers |-> IdleFrame]
    /\ RangeUnused /\ AnalyzerUnused /\ StoreUnused /\ SnapshotsUnused
    /\ analysis = Unused /\ profile = Unused /\ role = Unused
    /\ evaluation = Unused /\ auditionResult = Unused

StartEvaluate(c) ==
    /\ frames[c].pc \in {"idle", "done"}
    /\ \E an \in ConcurrentAnalyses, prof \in ConcurrentProfiles :
         frames' = [frames EXCEPT ![c] = NewFrame("evaluate", an, prof, NoRole)]
    /\ UNCHANGED <<coreVars, analyzerVars, storeVars, snapshotVars>>

StartAudition(c) ==
    /\ frames[c].pc \in {"idle", "done"}
    /\ \E an \in ConcurrentAnalyses, prof \in ConcurrentProfiles,
          given_role \in {NoRole, "pad"} :
         frames' = [frames EXCEPT ![c] = NewFrame("audition", an, prof, given_role)]
    /\ UNCHANGED <<coreVars, analyzerVars, storeVars, snapshotVars>>

StepEvaluate(c) ==
    LET f == frames[c] IN
    /\ f.op = "evaluate" /\ f.pc \notin {"idle", "done"}
    /\ frames' =
         IF f.pc = "return"
         THEN [frames EXCEPT ![c].pc = "done",
                             ![c].result = EvaluationResult(f.prof, Locals(frames, c).acc)]
         ELSE [StoreLocals(frames, c,
                 [Locals(frames, c) EXCEPT
                    !.acc = EvaluateStep(f.pc, Locals(frames, c).acc, f.an, f.prof)])
               EXCEPT ![c].pc = PositionAfter(EvaluatePositions, f.pc)]
    /\ UNCHANGED <<coreVars, analyzerVars, storeVars, snapshotVars>>

StepAudition(c) ==
    LET f == frames[c] IN
    /\ f.op = "audition" /\ f.pc \notin {"idle", "done"}
    /\ frames' =
         IF f.pc = "return"
         THEN LET loc == Locals(frames, c) IN
              [frames EXCEPT ![c].pc = "done",
                             ![c].result = AuditionResult(f.an, f.prof, loc.freq_profile,
                                                         loc.dominant, loc.role)]
         ELSE [StoreLocals(frames, c,
                 AuditionStep(f.pc, Locals(frames, c), f.an, f.given_role))
               EXCEPT ![c].pc = PositionAfter(AuditionPositions, f.pc)]
    /\ UNCHANGED <<coreVars, analyzerVars, storeVars, snapshotVars>>

NextConcurrent ==
    \E c \in Callers :
       StartEvaluate(c) \/ StartAudition(c) \/ StepEvaluate(c) \/ StepAudition(c)

SpecConcurrent == InitConcurrent /\ [][NextConcurrent]_vars

\* What the call of frame f returns when it runs alone.
RunAlone(f) ==
    IF f.op = "evaluate" THEN evaluate(f.an, f.prof)
    ELSE audition(f.an, f.prof, f.given_role)

SameCall(f, g) ==
    /\ f.op = g.op /\ f.an = g.an /\ f.prof = g.prof
    /\ f.given_role = g.given_role

EveryCallAsIfAlone ==
    /\ \A c \in Callers :
         frames[c].pc = "done" => frames[c].result = RunAlone(frames[c])
    /\ \A c, e \in Callers :
         (frames[c].pc = "done" /\ frames[e].pc = "done"
            /\ SameCall(frames[c], frames[e]))
           => frames[c].result = frames[e].result

ArgumentsKept ==
    \A c \in Callers :
       frames[c].pc \notin {"idle", "done"} =>
          /\ frames'[c].an = frames[c].an
          /\ frames'[c].prof = frames[c].prof
          /\ frames'[c].given_role = frames[c].given_role

\* C15: under every interleaving of the steps of concurrent evaluate and
\* audition calls, each finished call has returned what it returns when run
\* alone, equal calls have returned equal results, and no step of a running
\* call changes the analysis, profile or role it was given.
C15_CallsAreIndependent == []EveryCallAsIfAlone /\ [][ArgumentsKept]_vars

\* One caller has finished an evaluate call that reports issues while the
\* other is in the middle of the band loop of an evaluate call on another
\* analysis, with issues of its own collected so far.
C15_Witness ==
    /\ frames["caller_a"].pc = "done" /\ frames["caller_a"].op = "evaluate"
    /\ frames["caller_a"].result.issues # <<>>
    /\ frames["caller_b"].op = "evaluate" /\ frames["caller_b"].pc = "mid"
    /\ frames["caller_b"].an # frames["caller_a"].an
    /\ frames["caller_b"].locals.acc.issues # <<>>

----------------------------------------------------------------------------
(* Style persistence (src/src/rubin/evaluator.py, load_style to            *)
(* _profile_to_dict).  styleFiles.builtin and styleFiles.user are the      *)
(* *.json files of STYLES_DIR and USER_STYLES_DIR: file stem -> the JSON   *)
(* document json.load reads from it, an object holding the keys present.   *)

\* data.get(key, default)
GetOr(data, key, default) == IF key \in DOMAIN data THEN data[key] ELSE default

\* {"low": r.low, "high": r.high}
RangeToJson(r) == ("low" :> r.low) @@ ("high" :> r.high)

\* Range(r["low"], r["high"]) if r else None
_range_or_none(data, key) ==
    LET r == Get(data, key) IN
    IF r = None \/ DOMAIN r = {} THEN None ELSE Range(r["low"], r["high"])

\* StyleProfile.from_dict
from_dict(data) ==
    LET balance == GetOr(data, "frequency_balance", <<>>) IN
    StyleProfile(data["name"], data["description"],
                 [band \in DOMAIN balance |->
                    Range(balance[band]["low"], balance[band]["high"])],
                 _range_or_none(data, "dynamic_range_db"),
                 _range_or_none(data, "brightness"),
                 _range_or_none(data, "stereo_width"),
                 _range_or_none(data, "rms_mean"))

ProfileScalarKeys == <<"dynamic_range_db", "brightness", "stereo_width", "rms_mean">>

\* The entries of the scalar targets among keys that are not None.
RECURSIVE ScalarEntries(_, _)
ScalarEntries(prof, keys) ==
    IF keys = <<>> THEN <<>>
    ELSE LET key == Head(keys)
             rest == ScalarEntries(prof, Tail(keys))
         IN  IF prof[key] # None THEN (key :> RangeToJson(prof[key])) @@ rest
             ELSE rest

_profile_to_dict_without_rms_mean(prof) ==
    ("name" :> prof.name) @@ ("description" :> prof.description)
    @@ (IF DOMAIN prof.frequency_balance # {}
        THEN "frequency_balance" :>
               [band \in DOMAIN prof.frequency_balance |->
                  RangeToJson(prof.frequency_balance[band])]
        ELSE <<>>)
    @@ ScalarEntries(prof, SubSeq(ProfileScalarKeys, 1, 3))

_profile_to_dict(prof) ==
    ("name" :> prof.name) @@ ("description" :> prof.description)
    @@ (IF DOMAIN prof.frequency_balance # {}
        THEN "frequency_balance" :>
               [band \in DOMAIN prof.frequency_balance |->
                  RangeToJson(prof.frequency_balance[band])]
        ELSE <<>>)
    @@ ScalarEntries(prof, ProfileScalarKeys)

FileNotFoundError == Raised("FileNotFoundError")

load_style_builtin_first(files, name) ==
    IF name \in DOMAIN files.builtin THEN Returned(from_dict(files.builtin[name]))
    ELSE IF name \in DOMAIN files.user THEN Returned(from_dict(files.user[name]))
    ELSE FileNotFoundError

\* User styles take precedence over built-ins
load_style(files, name) ==
    IF name \in DOMAIN files.user THEN Returned(from_dict(files.user[name]))
    ELSE IF name \in DOMAIN files.builtin THEN Returned(from_dict(files.builtin[name]))
    ELSE FileNotFoundError

\* Every style name of the model, in the order sorted() gives them.
NameOrder == <<"ambient", "custom", "roundtrip", "synthpop", "unknown">>
StyleNames == {NameOrder[i] : i \in DOMAIN NameOrder}

\* sorted(names)
RECURSIVE SortedNames(_, _)
SortedNames(names, i) ==
    IF i = 0 THEN <<>>
    ELSE SortedNames(names, i - 1)
         \o (IF NameOrder[i] \in names THEN <<NameOrder[i]>> ELSE <<>>)

list_styles(files) ==
    SortedNames(DOMAIN files.builtin \cup DOMAIN files.user, Len(NameOrder))

is_user_style(files, name) == name \in DOMAIN files.user

\* The files after save_user_style(prof)
save_user_style(files, prof) ==
    [files EXCEPT !.user =
       (prof.name :> _profile_to_dict(prof))
       @@ [n \in DOMAIN files.user \ {prof.name} |-> files.user[n]]]

delete_user_style_missing_ok(files, name) ==
    [files |-> [files EXCEPT !.user = [n \in DOMAIN files.user \ {name} |-> files.user[n]]],
     outcome |-> Returned(None)]

\* The files after delete_user_style(name), and its outcome
delete_user_style(files, name) ==
    IF name \notin DOMAIN files.user
    THEN [files |-> files, outcome |-> FileNotFoundError]
    ELSE [files |-> [files EXCEPT !.user = [n \in DOMAIN files.user \ {name} |-> files.user[n]]],
          outcome |-> Returned(None)]

\* The built-in styles the tests name, with stand-in contents.
BuiltinStyles ==
    ("ambient" :>
       (("name" :> "ambient") @@ ("description" :> "built-in ambient")
        @@ ("frequency_balance" :> ("bass" :> RangeToJson(Range(1, 2))))
        @@ ("dynamic_range_db" :> RangeToJson(Range(100, 250)))))
    @@ ("synthpop" :>
       (("name" :> "synthpop") @@ ("description" :> "built-in synthpop")
        @@ ("brightness" :> RangeToJson(Range(20000, 50000)))))

\* The profiles handed to save_user_style: the profiles of
\* tests/test_evaluator.py 110-200 (in tenths), an override of a built-in,
\* profiles without any target and a target of [0, 0].
StoreProfiles ==
    {StyleProfile("custom", "A test custom style", ("bass" :> Range(1, 10)),
                  Range(60, 180), None, None, None),
     StyleProfile("custom", "Custom", <<>>, None, None, None, None),
     StyleProfile("ambient", "My custom ambient", ("bass" :> Range(5, 9)),
                  None, None, None, None),
     StyleProfile("ambient", "built-in ambient", <<>>, None, None, Range(0, 0), None),
     StyleProfile("roundtrip", "Full roundtrip test",
                  ("sub_bass" :> Range(0, 1)) @@ ("bass" :> Range(1, 10)),
                  Range(60, 180), Range(20000, 50000), Range(1, 4), Range(1, 3)),
     StyleProfile("roundtrip", "Full roundtrip test", <<>>,
                  None, None, None, Range(0, 0))}

NoCall == [op |-> "none", arg |-> None, outcome |-> None]
Call(op, arg, outcome) == [op |-> op, arg |-> arg, outcome |-> outcome]

InitStore ==
    /\ styleFiles = [builtin |-> BuiltinStyles, user |-> <<>>]
    /\ styleResult = NoCall
    /\ RangeUnused /\ AnalyzerUnused /\ SnapshotsUnused /\ frames = Unused
    /\ analysis = Unused /\ profile = Unused /\ role = Unused
    /\ evaluation = Unused /\ auditionResult = Unused

SaveUserStyle ==
    \E prof \in StoreProfiles :
       /\ styleFiles' = save_user_style(styleFiles, prof)
       /\ styleResult' = Call("save_user_style", prof, Returned(prof.name))
       /\ UNCHANGED <<coreVars, analyzerVars, snapshotVars, frames>>

DeleteUserStyle ==
    \E name \in StyleNames :
       LET deleted == delete_user_style(styleFiles, name) IN
       /\ styleFiles' = deleted.files
       /\ styleResult' = Call("delete_user_style", name, deleted.outcome)
       /\ UNCHANGED <<coreVars, analyzerVars, snapshotVars, frames>>

LoadStyle ==
    \E name \in StyleNames :
       /\ styleResult' = Call("load_style", name, load_style(styleFiles, name))
       /\ UNCHANGED <<coreVars, analyzerVars, styleFiles, snapshotVars, frames>>

ListStyles ==
    /\ styleResult' = Call("list_styles", None, Returned(list_styles(styleFiles)))
    /\ UNCHANGED <<coreVars, analyzerVars, styleFiles, snapshotVars, frames>>

IsUserStyle ==
    \E name \in StyleNames :
       /\ styleResult' = Call("is_user_style", name,
                              Returned(is_user_style(styleFiles, name)))
       /\ UNCHANGED <<coreVars, analyzerVars, styleFiles, snapshotVars, frames>>

NextStore ==
    SaveUserStyle \/ DeleteUserStyle \/ LoadStyle \/ ListStyles \/ IsUserStyle

SpecStore == InitStore /\ [][NextStore]_vars

----------------------------------------------------------------------------
(* Properties of style persistence                                         *)

RankOf(name) == CHOOSE i \in DOMAIN NameOrder : NameOrder[i] = name

\* names lists exactly the members of the set expected, in sorted order.
IsSortedListing(names, expected) ==
    /\ {names[i] : i \in DOMAIN names} = expected
    /\ \A i, j \in DOMAIN names : i < j => RankOf(names[i]) < RankOf(names[j])

\* C16: after any sequence of save_user_style and delete_user_style calls,
\* load_style(name) returns the user style of that name when one exists,
\* otherwise the built-in style of that name, and otherwise raises
\* FileNotFoundError (never a default profile); list_styles returns the
\* sorted union of the built-in and the user style names.
C16_LoadPrefersUserThenBuiltin ==
    /\ styleResult.op = "load_style" =>
         LET name == styleResult.arg IN
         IF name \in DOMAIN styleFiles.user
         THEN styleResult.outcome = Returned(from_dict(styleFiles.user[name]))
         ELSE IF name \in DOMAIN styleFiles.builtin
         THEN styleResult.outcome = Returned(from_dict(styleFiles.builtin[name]))
         ELSE styleResult.outcome = FileNotFoundError
    /\ styleResult.op = "list_styles" =>
         IsSortedListing(styleResult.outcome.ret,
                         DOMAIN styleFiles.builtin \cup DOMAIN styleFiles.user)

\* load_style("ambient") while a user style overrides the built-in ambient
\* and another user style exists.
C16_Witness ==
    /\ styleResult.op = "load_style"
    /\ styleResult.arg = "ambient"
    /\ DOMAIN styleFiles.user = {"ambient", "custom"}
    /\ styleResult.outcome.called
    /\ styleResult.outcome.ret.description = "My custom ambient"

----------------------------------------------------------------------------
SameTarget(t, u) ==
    IF t = None THEN u = None
    ELSE u # None /\ u.low = t.low /\ u.high = t.high

\* loaded equals prof in name, description, every band Range and each scalar
\* target, absent targets being absent in both.
SameProfile(loaded, prof) ==
    /\ loaded.name = prof.name
    /\ loaded.description = prof.description
    /\ DOMAIN loaded.frequency_balance = DOMAIN prof.frequency_balance
    /\ \A band \in DOMAIN prof.frequency_balance :
         SameTarget(prof.frequency_balance[band], loaded.frequency_balance[band])
    /\ \A i \in DOMAIN ProfileScalarKeys :
         SameTarget(prof[ProfileScalarKeys[i]], loaded[ProfileScalarKeys[i]])

LoadRightAfterSave ==
    (/\ styleResult.op = "save_user_style"
     /\ styleResult'.op = "load_style"
     /\ styleResult'.arg = styleResult.arg.name)
      => /\ styleResult'.outcome.called
         /\ SameProfile(styleResult'.outcome.ret, styleResult.arg)

\* C17: load_style(p.name) right after save_user_style(p) returns a profile
\* equal to p in name, description, every band Range and each of
\* dynamic_range_db, brightness, stereo_width and rms_mean, absent targets
\* staying absent.
C17_SaveLoadRoundTrip == [][LoadRightAfterSave]_vars

\* The profile with every target set has been saved and loaded back.
C17_Witness ==
    /\ styleResult.op = "load_style"
    /\ styleResult.arg = "roundtrip"
    /\ "roundtrip" \in DOMAIN styleFiles.user
    /\ "frequency_balance" \in DOMAIN styleFiles.user["roundtrip"]
    /\ styleResult.outcome.called
    /\ styleResult.outcome.ret.rms_mean = Range(1, 3)
    /\ styleResult.outcome.ret.brightness = Range(20000, 50000)

----------------------------------------------------------------------------
\* What a step that is a delete_user_style(name) call does.
DeleteRemovesOnlyTheUserStyle ==
    styleResult'.op = "delete_user_style" =>
       LET name == styleResult'.arg IN
       /\ ~is_user_style(styleFiles', name)
       /\ styleFiles'.builtin = styleFiles.builtin
       /\ DOMAIN styleFiles'.user = DOMAIN styleFiles.user \ {name}
       /\ \A other \in DOMAIN styleFiles'.user :
            styleFiles'.user[other] = styleFiles.user[other]
       /\ IF name \in DOMAIN styleFiles.user
          THEN styleResult'.outcome = Returned(None)
          ELSE /\ styleResult'.outcome = FileNotFoundError
               /\ styleFiles' = styleFiles
       /\ name \in DOMAIN styleFiles.builtin =>
            load_style(styleFiles', name)
              = Returned(from_dict(styleFiles.builtin[name]))

\* C18: delete_user_style(name) removes the user style of that name and
\* nothing else, so that is_user_style(name) is false afterwards; when no
\* such user style exists it raises FileNotFoundError and changes nothing;
\* a built-in style is never deleted, and after the deletion of a user
\* override load_style(name) returns the built-in again.
C18_DeleteRemovesOnlyUserStyle == [][DeleteRemovesOnlyTheUserStyle]_vars

\* The user override of the built-in ambient has just been deleted, another
\* user style being kept.
C18_Witness ==
    /\ styleResult.op = "delete_user_style"
    /\ styleResult.arg = "ambient"
    /\ styleResult.outcome = Returned(None)
    /\ DOMAIN styleFiles.user = {"custom"}
    /\ "ambient" \in DOMAIN styleFiles.builtin

----------------------------------------------------------------------------
(* The snapshot tools of src/src/rubin/server.py.  A snapshot is the       *)
(* dictionary asdict(analysis) of a captured buffer; what the capture and  *)
(* its analysis yield is an input of the model.                            *)

\* {"a": va, "b": vb, "delta": round(float(vb) - float(va), 6)}
DeltaNumber(va, vb) == [a |-> va, b |-> vb, delta |-> vb - va]

\* {"a": va, "b": vb, "delta": [... for av, bv in zip(va, vb)]}
DeltaList(va, vb) ==
    LET n == IF Len(va) < Len(vb) THEN Len(va) ELSE Len(vb) IN
    [a |-> va, b |-> vb, delta |-> [i \in 1 .. n |-> vb[i] - va[i]]]

\* _delta on the snapshots of the model: dictionaries (spectral, timbre) of
\* numbers and lists, and numbers
_delta(da, db) ==
    [spectral |-> [key \in DOMAIN da.spectral |->
                     DeltaNumber(da.spectral[key], db.spectral[key])],
     timbre |-> [key \in DOMAIN da.timbre |->
                   DeltaList(da.timbre[key], db.timbre[key])],
     num_channels |-> DeltaNumber(da.num_channels, db.num_channels)]

SnapshotNotFound(name) == [error |-> [text |-> "Snapshot not found", name |-> name]]

compare_snapshots_defaults_to_first(store, name_a, name_b) ==
    IF name_a \notin DOMAIN store THEN SnapshotNotFound(name_a)
    ELSE _delta(store[name_a],
                IF name_b \in DOMAIN store THEN store[name_b] ELSE store[name_a])

compare_snapshots(store, name_a, name_b) ==
    IF name_a \notin DOMAIN store THEN SnapshotNotFound(name_a)
    ELSE IF name_b \notin DOMAIN store THEN SnapshotNotFound(name_b)
    ELSE _delta(store[name_a], store[name_b])

\* Every snapshot name of the model, in the order sorted() gives them.
SnapshotOrder == <<"also_nope", "final_mix", "snap_a", "snap_b">>
SnapshotNames == {SnapshotOrder[i] : i \in DOMAIN SnapshotOrder}
CapturableNames == {"final_mix", "snap_a", "snap_b"}

\* list(sorted(_snapshots.keys()))
RECURSIVE list_snapshots(_, _)
list_snapshots(store, i) ==
    IF i = 0 THEN <<>>
    ELSE list_snapshots(store, i - 1)
         \o (IF SnapshotOrder[i] \in DOMAIN store THEN <<SnapshotOrder[i]>> ELSE <<>>)

\* asdict(analyze(capture(...))) of two different captures
SnapshotAnalyses ==
    {[spectral |-> [centroid_mean |-> 4400, flatness_mean |-> 1],
      timbre |-> [mfcc_means |-> <<3, -1>>],
      num_channels |-> 2],
     [spectral |-> [centroid_mean |-> 8800, flatness_mean |-> 4],
      timbre |-> [mfcc_means |-> <<2, 5>>],
      num_channels |-> 2]}

InitSnapshots ==
    /\ _snapshots = <<>>
    /\ toolResult = NoCall
    /\ capturedNames = {}
    /\ RangeUnused /\ AnalyzerUnused /\ StoreUnused /\ frames = Unused
    /\ analysis = Unused /\ profile = Unused /\ role = Unused
    /\ evaluation = Unused /\ auditionResult = Unused

CaptureSnapshot ==
    \E name \in CapturableNames, analysis_dict \in SnapshotAnalyses :
       /\ _snapshots' = (name :> analysis_dict)
                        @@ [n \in DOMAIN _snapshots \ {name} |-> _snapshots[n]]
       /\ toolResult' = Call("capture_snapshot", name, Returned(analysis_dict))
       /\ capturedNames' = capturedNames \cup {name}
       /\ UNCHANGED <<coreVars, analyzerVars, storeVars, frames>>

CompareSnapshots ==
    \E name_a, name_b \in SnapshotNames :
       /\ toolResult' = Call("compare_snapshots", <<name_a, name_b>>,
                             Returned(compare_snapshots(_snapshots, name_a, name_b)))
       /\ UNCHANGED <<coreVars, analyzerVars, storeVars, frames, _snapshots,
                      capturedNames>>

ListSnapshots ==
    /\ toolResult' = Call("list_snapshots", None,
                          Returned(list_snapshots(_snapshots, Len(SnapshotOrder))))
    /\ UNCHANGED <<coreVars, analyzerVars, storeVars, frames, _snapshots,
                   capturedNames>>

NextSnapshots == CaptureSnapshot \/ CompareSnapshots \/ ListSnapshots

SpecSnapshots == InitSnapshots /\ [][NextSnapshots]_vars

SnapshotRank(name) == CHOOSE i \in DOMAIN SnapshotOrder : SnapshotOrder[i] = name

IsErrorResult(result) == DOMAIN result = {"error"}

SnapshotResultsAgreeWithHistory ==
    /\ toolResult.op = "list_snapshots" =>
         LET names == toolResult.outcome.ret IN
         /\ {names[i] : i \in DOMAIN names} = capturedNames
         /\ \A i, j \in DOMAIN names :
              i < j => SnapshotRank(names[i]) < SnapshotRank(names[j])
    /\ toolResult.op = "compare_snapshots" =>
         (IsErrorResult(toolResult.outcome.ret)
            <=> (toolResult.arg[1] \notin capturedNames
                   \/ toolResult.arg[2] \notin capturedNames))

ReadingLeavesTheStore ==
    toolResult'.op \in {"compare_snapshots", "list_snapshots"}
      => _snapshots' = _snapshots

\* C19: after any sequence of capture_snapshot calls list_snapshots returns
\* exactly the names captured so far, sorted, and compare_snapshots(a, b)
\* returns an error result instead of a diff exactly when a or b was never
\* captured; neither call changes the snapshot store.
C19_SnapshotStore == []SnapshotResultsAgreeWithHistory /\ [][ReadingLeavesTheStore]_vars

\* Two snapshots are stored and compare_snapshots has answered an error for
\* a captured name compared with a name never captured.
C19_Witness ==
    /\ capturedNames = {"snap_a", "snap_b"}
    /\ toolResult.op = "compare_snapshots"
    /\ toolResult.arg = <<"snap_a", "also_nope">>
    /\ IsErrorResult(toolResult.outcome.ret)

----------------------------------------------------------------------------
\* C20: for every band with a target, evaluate records in band_scores the
\* 1-decimal rounding of max(0, 100 - (dev/span)*50), where dev is the
\* target's deviation of the band's energy and span is (high-low)/2 when
\* high > low and 1.0 otherwise; the span is never zero, and the score is
\* exactly 100 for an energy inside the range and within [0, 100] always.
C20_BandScoreFormula ==
    evaluation.called =>
       \A b \in Bands :
          TargetOf(profile, b) # None =>
             LET t == TargetOf(profile, b)
                 x == MeasuredOf(analysis, b)
                 s == evaluation.ret.band_scores[b]
             IN  /\ TwiceSpan(t, b) > 0
                 /\ NearestTenth(s, ComponentScore(analysis, profile, b))
                 /\ InRange(t, x) => s = 1000
                 /\ 0 <= s /\ s <= 1000

\* A band one unit below a target of span 1.5 scores 66.7 while a band far
\* above a degenerate target scores 0.0.
C20_Witness ==
    /\ evaluation.called
    /\ \E b \in Bands :
         /\ TargetOf(profile, b) = Range(1, 4)
         /\ MeasuredOf(analysis, b) = 0
         /\ evaluation.ret.band_scores[b] = 667
    /\ \E b \in Bands :
         /\ TargetOf(profile, b) = Range(3, 3)
         /\ MeasuredOf(analysis, b) = FarValue
         /\ evaluation.ret.band_scores[b] = 0

----------------------------------------------------------------------------
\* x lies n half-widths (spans) beyond a boundary of the target t, high > low
SpansBeyond(t, x, n) ==
    /\ t.high > t.low
    /\ \/ 2 * (x - t.high) = n * (t.high - t.low)
       \/ 2 * (t.low - x) = n * (t.high - t.low)

\* C21 as stated: for a band whose target has high > low, an energy exactly
\* one span (span = (high-low)/2) beyond a range boundary, high + span or
\* low - span, gets band score 0.
C21_OneSpanBeyondScoresZero ==
    evaluation.called =>
       \A b \in Bands :
          (TargetOf(profile, b) # None
             /\ SpansBeyond(TargetOf(profile, b), MeasuredOf(analysis, b), 1))
            => evaluation.ret.band_scores[b] = 0

\* C21 amended: for a band whose target has high > low, an energy exactly
\* one span beyond a range boundary (high + span or low - span) gets band
\* score 50.0; the band score 0 is reached two spans beyond the boundary
\* (high + 2*span or low - 2*span).
C21_OneSpanBeyondScoresFifty ==
    evaluation.called =>
       \A b \in Bands :
          TargetOf(profile, b) # None =>
             LET t == TargetOf(profile, b)
                 x == MeasuredOf(analysis, b)
                 s == evaluation.ret.band_scores[b]
             IN  /\ SpansBeyond(t, x, 1) => s = 500
                 /\ SpansBeyond(t, x, 2) => s = 0

\* One band lies one span above its target and another one span below, and
\* both score 50.0.
C21_Witness ==
    /\ evaluation.called
    /\ \E b, c \in Bands :
         LET t == TargetOf(profile, b)
             u == TargetOf(profile, c)
         IN  /\ t # None /\ u # None /\ t.high > t.low /\ u.high > u.low
             /\ 2 * (MeasuredOf(analysis, b) - t.high) = t.high - t.low
             /\ 2 * (u.low - MeasuredOf(analysis, c)) = u.high - u.low
             /\ evaluation.ret.band_scores[b] = 500
             /\ evaluation.ret.band_scores[c] = 500

----------------------------------------------------------------------------
\* The role of the first rule an analysis matches, in the order percussion,
\* texture, bass, pad; lead when it matches none.
FirstMatchingRole(an) ==
    IF PercussionRule(an) THEN "percussion"
    ELSE IF TextureRule(an) THEN "texture"
    ELSE IF LowDominant(an) THEN "bass"
    ELSE IF PadRule(an) THEN "pad"
    ELSE "lead"

\* The largest difference between two band proportions
Spread(an) ==
    LET p(b) == Proportion(an, b)
        hi == CHOOSE b \in Bands : \A c \in Bands : RatLe(p(c), p(b))
        lo == CHOOSE b \in Bands : \A c \in Bands : RatLe(p(b), p(c))
    IN  RatSub(p(hi), p(lo))

\* C22: with no explicit role, audition's role is that of the first matching
\* rule in the fixed order percussion (dynamic range > 20 and
\* presence+brilliance > 0.25), texture (flatness mean > 0.3), bass
\* (sub_bass+bass > 0.5), pad (max - min band proportion < 0.2 and stereo
\* width > 0.1), else lead; it is always one of the five recognized roles;
\* every comparison is strict: a value exactly on a threshold does not match.
C22_ClassificationOrder ==
    (auditionResult.called /\ role = NoRole) =>
       LET r == auditionResult.ret.role IN
       /\ r = FirstMatchingRole(analysis)
       /\ r \in TRACK_ROLES
       /\ (analysis.loudness.dynamic_range_db = 200
             \/ ProportionOf(analysis, {"presence", "brilliance"}) = Rat(1, 4))
            => r # "percussion"
       /\ analysis.spectral.flatness_mean = 3 => r # "texture"
       /\ ProportionOf(analysis, {"sub_bass", "bass"}) = Rat(1, 2) => r # "bass"
       /\ (Spread(analysis) = Rat(1, 5) \/ analysis.stereo.width = 1) => r # "pad"

\* An analysis exactly on the thresholds of dynamic range (20 dB), flatness
\* (0.3) and low energy (0.5), with presence+brilliance above 0.25, is
\* classified lead.
C22_Witness ==
    /\ auditionResult.called /\ role = NoRole
    /\ analysis.loudness.dynamic_range_db = 200
    /\ RatLt(Rat(1, 4), ProportionOf(analysis, {"presence", "brilliance"}))
    /\ analysis.spectral.flatness_mean = 3
    /\ ProportionOf(analysis, {"sub_bass", "bass"}) = Rat(1, 2)
    /\ auditionResult.ret.role = "lead"

----------------------------------------------------------------------------
\* The primary and the avoided bands of a role, as sets
PrimaryBands(r) == SeqRange(_role_band_affinity(r).primary)
AvoidBands(r) == SeqRange(_role_band_affinity(r).avoid)

\* min(100, 200 * sum of the primary-band proportions)
ExpectedPrimary(an, r) ==
    RatMin(R(100), RatMul(R(200), ProportionOf(an, PrimaryBands(r))))

\* max(0, 100 - (avoid_sum - 0.15) * 400)
ExpectedAvoid(an, r) ==
    RatMax(R(0), RatSub(R(100), RatMul(RatSub(ProportionOf(an, AvoidBands(r)),
                                              Rat(15, 100)), R(400))))

AvoidPenaltyApplies(an, r) == RatLt(Rat(15, 100), ProportionOf(an, AvoidBands(r)))

\* C23: fit_score is the 1-decimal rounding of the mean of the primary-band
\* score min(100, 200 * primary proportion), which always contributes, and of
\* the avoid-band score max(0, 100 - (avoid_sum - 0.15) * 400), which
\* contributes only when avoid_sum > 0.15 strictly (at exactly 0.15 the
\* primary score stands alone); fit_score lies in [0, 100].
C23_FitScoreIsMeanOfComponents ==
    auditionResult.called =>
       LET res == auditionResult.ret
           primary == ExpectedPrimary(analysis, res.role)
           avoid == ExpectedAvoid(analysis, res.role)
       IN  /\ AvoidPenaltyApplies(analysis, res.role) =>
                 NearestTenth(res.fit_score, RatDiv(RatAdd(primary, avoid), R(2)))
           /\ ~AvoidPenaltyApplies(analysis, res.role) =>
                 NearestTenth(res.fit_score, primary)
           /\ 0 <= res.fit_score /\ res.fit_score <= 1000

\* The avoided band of a lead holds exactly 0.15 of the energy and its
\* primary bands 0.4: the fit score is the primary score 80.0 alone.
C23_Witness ==
    /\ auditionResult.called
    /\ auditionResult.ret.role = "lead"
    /\ ProportionOf(analysis, AvoidBands("lead")) = Rat(15, 100)
    /\ ExpectedPrimary(analysis, "lead") = R(80)
    /\ auditionResult.ret.fit_score = 800

----------------------------------------------------------------------------
\* The issues of a category about band b
IssuesAbout(res, category, b) ==
    SelectSeq(res.issues, LAMBDA i : i.category = category /\ i.band = b)

\* C24: audition emits a role_conflict issue (severity medium) for an avoid
\* band b of the resolved role iff the combined avoid-band proportion exceeds
\* 0.15 and b's own proportion exceeds 0.10, and then exactly one; no other
\* band gets one, and none exists when the combined proportion is at most
\* 0.15.  The thresholds are independent: the penalty can lower fit_score
\* while no role_conflict issue is emitted.
C24_RoleConflictThresholds ==
    auditionResult.called =>
       LET res == auditionResult.ret
           penalty == AvoidPenaltyApplies(analysis, res.role)
           conflicts == IssuesOfCategory(res, "role_conflict")
       IN  /\ \A b \in Bands :
                 Len(IssuesAbout(res, "role_conflict", b)) =
                   IF /\ b \in AvoidBands(res.role)
                      /\ penalty
                      /\ RatLt(Rat(1, 10), Proportion(analysis, b))
                   THEN 1 ELSE 0
           /\ \A i \in DOMAIN conflicts :
                 conflicts[i].severity = "medium" /\ conflicts[i].band \in Bands
           /\ ~penalty => conflicts = <<>>

\* A bass whose avoided bands hold 0.2 of the energy, none of them more than
\* 0.10: the penalty lowers the fit score below the perfect primary score
\* and no role_conflict issue is emitted.
C24_Witness ==
    /\ auditionResult.called
    /\ auditionResult.ret.role = "bass"
    /\ ProportionOf(analysis, AvoidBands("bass")) = Rat(1, 5)
    /\ \E b \in AvoidBands("bass") : Proportion(analysis, b) = Rat(1, 10)
    /\ ExpectedPrimary(analysis, "bass") = R(100)
    /\ auditionResult.ret.fit_score = 900
    /\ IssuesOfCategory(auditionResult.ret, "role_conflict") = <<>>

----------------------------------------------------------------------------
\* The profile without its band targets
WithoutBandTargets(prof) == [prof EXCEPT !.frequency_balance = <<>>]

\* raw band energy > 1.5 * the target's high bound
ExceedsStyle(an, prof, b) ==
    /\ TargetOf(prof, b) # None
    /\ 2 * an.frequency_bands[b] > 3 * TargetOf(prof, b).high

\* C25: audition emits exactly one excess_for_style issue (severity low) for
\* each dominant band that has a profile target and whose raw band energy is
\* strictly greater than 1.5 times the target's high bound, and none for a
\* band that is not dominant or has no target; these issues come after all
\* role_conflict issues, and the fit score is the one the profile stripped of
\* its band targets gets.
C25_ExcessForStyle ==
    auditionResult.called =>
       LET res == auditionResult.ret IN
       /\ \A b \in Bands :
             Len(IssuesAbout(res, "excess_for_style", b)) =
               IF b \in SeqRange(res.dominant_bands) /\ ExceedsStyle(analysis, profile, b)
               THEN 1 ELSE 0
       /\ \A i \in DOMAIN res.issues :
             res.issues[i].category = "excess_for_style" =>
               /\ res.issues[i].severity = "low"
               /\ res.issues[i].band \in Bands
               /\ \A j \in DOMAIN res.issues :
                     res.issues[j].category = "role_conflict" => j < i
       /\ profile.frequency_balance # <<>> =>
             res.fit_score =
               audition(analysis, WithoutBandTargets(profile), role).fit_score

\* A result with a role_conflict issue followed by an excess_for_style issue
\* about bass, none about the dominant mid band, whose energy is exactly 1.5
\* times its target's high bound, and none about a band that exceeds its
\* target but is not dominant.
C25_Witness ==
    /\ auditionResult.called
    /\ IssuesOfCategory(auditionResult.ret, "role_conflict") # <<>>
    /\ IssuesAbout(auditionResult.ret, "excess_for_style", "bass") # <<>>
    /\ "mid" \in SeqRange(auditionResult.ret.dominant_bands)
    /\ TargetOf(profile, "mid") # None
    /\ 2 * analysis.frequency_bands["mid"] = 3 * TargetOf(profile, "mid").high
    /\ IssuesAbout(auditionResult.ret, "excess_for_style", "mid") = <<>>
    /\ \E b \in Bands \ SeqRange(auditionResult.ret.dominant_bands) :
          ExceedsStyle(analysis, profile, b)

----------------------------------------------------------------------------
\* C28: the primary-band component always contributes to the fit score, so
\* the default 100 of an empty component list never shows: an analysis with
\* zero total band energy gets fit_score 0.0, no dominant bands and no
\* issues, whatever the role, and a fit score of 100.0 only comes with a
\* primary-band score of at least 99.9.
C28_SilenceFitsZero ==
    auditionResult.called =>
       LET res == auditionResult.ret IN
       /\ TotalEnergy(analysis) = 0 =>
             /\ res.fit_score = 0
             /\ res.dominant_bands = <<>>
             /\ res.issues = <<>>
       /\ res.fit_score = 1000 =>
             RatLe(Rat(999, 10), ExpectedPrimary(analysis, res.role))

\* A silent analysis with a wide stereo image and no explicit role is
\* classified pad and fits 0.0, under a profile that sets band targets.
C28_Witness ==
    /\ auditionResult.called
    /\ role = NoRole
    /\ TotalEnergy(analysis) = 0
    /\ Constrained(profile) # {}
    /\ auditionResult.ret.role = "pad"
    /\ auditionResult.ret.fit_score = 0
    /\ auditionResult.ret.issues = <<>>

----------------------------------------------------------------------------
(* evaluate under profiles that differ in rms_mean only: a caller evaluates *)
(* an analysis, then evaluates it again with another rms_mean target.      *)

\* rms_mean targets: absent, degenerate at zero, proper, inverted
RmsTargets == {None, Range(0, 0), Range(2, 4), Range(4, 2)}

InitRmsMean ==
    /\ \E S \in {F \in FocusSets : Cardinality(F) <= 1} :
       \E tgts \in [S -> TargetRanges], vals \in [S -> MeasuredValues],
          rest \in RestModes, rms \in RmsTargets :
          /\ analysis = AnalysisOf(vals, rest.base)
          /\ profile = [ProfileOf(tgts, rest.target) EXCEPT !.rms_mean = rms]
    /\ evaluation = NotCalled
    /\ role = Unused /\ auditionResult = Unused
    /\ RangeUnused /\ ShellUnused

ReEvaluate ==
    /\ evaluation # NotCalled
    /\ \E rms \in RmsTargets \ {profile.rms_mean} :
          /\ profile' = [profile EXCEPT !.rms_mean = rms]
          /\ evaluation' = Returned(evaluate(analysis, profile'))
    /\ UNCHANGED <<range, value, containsResult, deviationResult, analysis,
                   role, auditionResult,
                   analyzerVars, storeVars, snapshotVars, frames>>

NextRmsMean == CallEvaluate \/ ReEvaluate

SpecRmsMean == InitRmsMean /\ [][NextRmsMean]_vars

WithoutRmsMean(prof) == [prof EXCEPT !.rms_mean = None]

\* Two successive results for the same analysis under profiles that differ
\* at most in rms_mean are equal.
RmsMeanChangesNothing ==
    (/\ evaluation # NotCalled /\ evaluation' # NotCalled
     /\ analysis' = analysis
     /\ WithoutRmsMean(profile') = WithoutRmsMean(profile)) =>
       /\ evaluation'.ret.cohesion_score = evaluation.ret.cohesion_score
       /\ evaluation'.ret.band_scores = evaluation.ret.band_scores
       /\ evaluation'.ret.issues = evaluation.ret.issues

\* C26: evaluate's result does not depend on the profile's rms_mean target:
\* for every analysis, two profiles that differ only in rms_mean (absent, or
\* present with any Range) give equal cohesion_score, band_scores and issues.
C26_RmsMeanIsIgnored == [][RmsMeanChangesNothing]_vars

\* A profile with an rms_mean target has been evaluated to a cohesion score
\* below 100 with an issue.
C26_Witness ==
    /\ evaluation # NotCalled
    /\ profile.rms_mean = Range(2, 4)
    /\ Constrained(profile) # {}
    /\ evaluation.ret.cohesion_score \notin {0, 1000}
    /\ evaluation.ret.issues # <<>>

----------------------------------------------------------------------------
====
